---- MODULE Spec2Model ----
(***************************************************************************)
(* Section-loop scheduler: the outer scheduler (_run_loop), the pipeline   *)
(* control plane (poll_control_messages, handle_pending_messages,          *)
(* pause_for_parent, wait_if_paused), the section engine (run_section) at  *)
(* the level of its dispatch and drain points, and the global coordinator  *)
(* (run_global_coordination).                                              *)
(***************************************************************************)
EXTENDS Integers, Sequences, FiniteSets, TLC

(***************************************************************************)
(* Bounds of the model.                                                    *)
(***************************************************************************)
\* Number of messages the parent sends to the scheduler's mailbox in a run.
MaxMsgs == 2
\* Number of changes of the pipeline-state lifecycle event in a run.
MaxToggles == 2
\* Number of environment events (messages and state changes) in a run.
MaxEvents == 3

(***************************************************************************)
(* Program constants.                                                      *)
(***************************************************************************)
MAX_COORDINATION_ROUNDS == 10
MIN_COORDINATION_ROUNDS == 2
\* _run_alignment_check_with_retries(..., max_retries: int = 2)
max_retries == 2

\* The loaded sections ("01", "02"), in load_sections order.
Sections == {1, 2}
SectionOrder == <<1, 2>>
\* No section is active (current_section=None).
NoSection == 0

\* Messages the parent can put into the scheduler's mailbox: the two control
\* messages and any other text.  Only pause_for_parent looks at the text of
\* a message that is not a control message (does it start with "resume"?),
\* so that is decided where pause_for_parent receives it.
ParentMsgs == {"abort", "alignment_changed", "text"}

\* The two excerpt files of a section.
ExcerptKinds == {"proposal", "alignment"}

VARIABLES
    pc,             \* position of the scheduler in _run_loop / run_section / coordinator
    wait,           \* wait_if_paused: "none" | "paused" (in its loop) | "ready" (it returned)
    mailbox,        \* pending messages of the scheduler's own mailbox
    buffered,       \* wait_if_paused: messages buffered while paused
    pstate,         \* latest pipeline-state lifecycle event
    flag,           \* artifacts/alignment-changed-pending exists
    excerpts,       \* existing excerpt files: <<section, kind>>
    queue,          \* Phase 1 work queue
    completed,      \* Phase 1 completed set
    cur,            \* section being processed (NoSection when none)
    related,        \* section -> it has related files
    results,        \* section_results
    unacked,        \* targets of unacknowledged consequence notes
    sent,           \* the messages sent to the parent so far (as a set)
    verdict,        \* what _extract_problems made of the last judge output
    attempt,        \* _run_alignment_check_with_retries: attempt number
    mode,           \* who runs the alignment check: "sweep" | "coord"
    todo,           \* sections still to visit in the Phase 2 sweep / the re-check pass
    round_num, stall_count, prev_unresolved,
    batches,        \* coordinator: execution batches still to run in this round
    hashed,         \* sections with a stored inputs hash
    msgsLeft, togglesLeft,
    \* history variables (observations, never read by the scheduler)
    abortSeen,      \* an abort message was consumed
    abortSec,       \* the section that was active when abort was consumed
    lateSpawn,      \* an agent subprocess was spawned after abort was consumed
    acPhase2,       \* alignment_changed consumed in Phase 2, Phase 1 not yet restarted
    needEngine,     \* sections requeued by alignment_changed, not yet passed to run_section
    needProcess,    \* sections requeued by alignment_changed, not yet popped again
    intr,           \* the section interrupted by the last requeue (NoSection: none)
    requeued,       \* the last step of Phase 1 was a requeue on alignment_changed
    roundsSent,     \* round numbers announced in this Phase 2 pass
    \* run_global_coordination, plan parsing (_parse_coordination_plan)
    plan_result,    \* what the planner's output holds (see PlanResults)
    plan_pos,       \* position of the parser
    plan_left,      \* plan["groups"] still to validate
    seen_indices,   \* the parser's seen_indices
    plan_ret,       \* "pending" | "none" (returned None) | "plan" | "raise"
    confirmed_groups, \* the groups of the round, as lists of problem indices
    \* run_global_coordination, batch building
    group_file_sets, \* the file set of each group
    gidx,           \* number of groups placed so far
    exec_batches,   \* the batches built so far (lists of group indices from 0)
    \* a parallel batch: one _dispatch_fix_group per pool thread
    tpc,            \* thread -> its position in dispatch_agent
    tbuf,           \* thread -> wait_if_paused's buffered messages
    staleSpawn,     \* history: an agent started between the receipt of an
                    \* alignment_changed and its invalidation and flag
    status_sent,    \* number of status:paused and status:resumed messages the
                    \* threads have sent to the parent
    \* coordinator: fix-model escalation
    escalation_file,  \* coordination/model-escalation.txt exists
    fix_model,        \* the model of the round's last fix dispatch ("none": none yet)
    escalation_round, \* round named by the escalation message sent at the end
                      \* of the round just ended (0: none sent)
    unresumed,        \* history: the section whose pause was answered by a
                      \* message that does not start with "resume"
    \* a function of the scheduler taken on its own
    call_args,        \* its arguments and the files it reads
    call_ret          \* what it has produced so far

ctlV == <<pc, wait>>
boxV == <<mailbox, buffered>>
fileV == <<flag, excerpts>>
p1V == <<queue, completed, cur, related>>
resV == <<results, unacked>>
alV == <<verdict, attempt, mode, todo>>
coV == <<round_num, stall_count, prev_unresolved, batches, hashed>>
envV == <<pstate, msgsLeft, togglesLeft>>
abortV == <<abortSeen, abortSec, lateSpawn>>
requeueV == <<needEngine, needProcess, intr, requeued>>
obsV == <<abortV, acPhase2, requeueV, roundsSent>>
planV == <<plan_result, plan_pos, plan_left, seen_indices, plan_ret, confirmed_groups>>
batchV == <<group_file_sets, gidx, exec_batches>>
fixV == <<tpc, tbuf, staleSpawn, status_sent>>
callV == <<call_args, call_ret>>
auxV == <<planV, batchV, fixV, callV>>
escV == <<escalation_file, fix_model, escalation_round>>
pauseV == <<unresumed>>

vars == <<ctlV, boxV, fileV, p1V, resV, sent, alV, coV, envV, obsV, auxV, escV, pauseV>>

(***************************************************************************)
(* Messages to the parent.                                                 *)
(***************************************************************************)
Msg(k, s) == [k |-> k, s |-> s]
\* fail:<section>:aborted when a section is known, else fail:aborted
FailAborted(sec) == Msg("fail:aborted", sec)
Complete == Msg("complete", NoSection)

(***************************************************************************)
(* SectionResult.                                                          *)
(***************************************************************************)
NoResult == [present |-> FALSE, aligned |-> FALSE, problems |-> "null"]
SectionResult(al, pr) == [present |-> TRUE, aligned |-> al, problems |-> pr]
Misaligned(res) == {s \in Sections : res[s].present /\ ~res[s].aligned}

(***************************************************************************)
(* Sequences.                                                              *)
(***************************************************************************)
Range(q) == {q[i] : i \in 1..Len(q)}
\* The sequences that list the set S once each.
Orders(S) == {q \in [1..Cardinality(S) -> S] : Range(q) = S}
\* S in ascending order (sorted(...)).
Sorted(S) == CHOOSE q \in Orders(S) : \A i, j \in 1..Len(q) : i < j => q[i] < q[j]
IsControl(m) == m \in {"abort", "alignment_changed"}
\* Index of the first abort of msgs, 0 when there is none.
FirstAbort(msgs) ==
    IF \E i \in 1..Len(msgs) : msgs[i] = "abort"
    THEN CHOOSE i \in 1..Len(msgs) :
            msgs[i] = "abort" /\ \A j \in 1..(i - 1) : msgs[j] # "abort"
    ELSE 0
\* The messages a drain loop handles: all of them, or those before the first abort.
Handled(msgs) ==
    IF FirstAbort(msgs) = 0 THEN msgs ELSE SubSeq(msgs, 1, FirstAbort(msgs) - 1)

(***************************************************************************)
(* pipeline_control.py                                                     *)
(***************************************************************************)
\* _invalidate_excerpts: every proposal and alignment excerpt is deleted.
InvalidateExcerpts(ex) == {}

\* poll_control_messages that sends nothing back to the mailbox.
PollControlNoReplay(msgs) ==
    [abort |-> FirstAbort(msgs) # 0,
     ac |-> \E i \in 1..Len(Handled(msgs)) : Handled(msgs)[i] = "alignment_changed",
     replay |-> <<>>]
\* poll_control_messages over the drained messages: whether it exits on
\* abort, whether it saw alignment_changed, and what it sends back to the
\* scheduler's own mailbox.
PollControl(msgs) ==
    [abort |-> FirstAbort(msgs) # 0,
     ac |-> \E i \in 1..Len(Handled(msgs)) : Handled(msgs)[i] = "alignment_changed",
     replay |-> SelectSeq(Handled(msgs), LAMBDA m : ~IsControl(m))]

\* handle_pending_messages over the drained messages: its return value and
\* whether it saw alignment_changed before returning.
HandlePending(msgs) ==
    [abort |-> FirstAbort(msgs) # 0,
     ac |-> \E i \in 1..Len(Handled(msgs)) : Handled(msgs)[i] = "alignment_changed"]

\* The completed sections leave `completed` and none is appended.
RequeueNoneAppended(q, comp) == {q}
\* The requeue loop: every completed section not in the queue is appended,
\* in the iteration order of the set.
Requeue(q, comp) ==
    {q \o tl : tl \in Orders(comp \ Range(q))}
\* The requeue without `queue.insert(0, sec_num)`.
InsertFrontOmitted(q, sec) == q
\* queue.insert(0, sec_num) unless it is queued already.
InsertFront(q, sec) == IF sec \in Range(q) THEN q ELSE <<sec>> \o q

(***************************************************************************)
(* Positions.                                                              *)
(***************************************************************************)
\* Positions at a dispatch_agent call (its first step is wait_if_paused).
DispatchPCs ==
    {"reexplore", "rs_setup", "rs_setup_adj", "rs_prop", "rs_prop_adj",
     "rs_palign", "rs_palign_adj", "rs_micro", "rs_impl", "rs_impl_adj",
     "rs_ialign", "rs_ialign_adj", "rs_registrar", "rs_impact",
     "al_disp", "al_adj", "co_plan", "co_bridge", "co_fix"}
\* Positions inside pause_for_parent, by the loop of run_section that called it.
PausePCs == {"pause_setup", "pause_prop", "pause_impl"}
\* Positions of Phase 2 (the sweep, the decision, the coordinator).
Phase2PCs ==
    {"sw_next", "al_poll", "al_disp", "al_adj", "decide", "co_round", "co_plan",
     "co_batch", "co_bridge", "co_fix", "co_recheck", "co_ret_true",
     "co_ret_false", "co_exit"}
InPhase2 == pc \in Phase2PCs

\* dispatch_agent has passed wait_if_paused: the pipeline was running when
\* it looked, or the wait loop has returned.
CanSpawn == wait = "ready" \/ (wait = "none" /\ pstate = "running")

\* Where run_section starts for a section: the setup loop runs only while
\* an excerpt file is missing.
RunSectionEntry(sec) ==
    IF \A k \in ExcerptKinds : <<sec, k>> \in excerpts THEN "rs_prop_top" ELSE "rs_setup"

\* The pool threads of a parallel batch (a batch of two groups).
FixThreads == {1, 2}

\* Outside the planning step, the batch building and a parallel batch their
\* variables are not in use.
PlanIdle ==
    /\ plan_result = [kind |-> "none", groups |-> <<>>] /\ plan_pos = "idle" /\ plan_left = <<>>
    /\ seen_indices = {} /\ plan_ret = "pending" /\ confirmed_groups = <<>>
BatchIdle ==
    /\ group_file_sets = <<>> /\ gidx = 0 /\ exec_batches = <<>>
FixIdle ==
    /\ tpc = [t \in FixThreads |-> "idle"]
    /\ tbuf = [t \in FixThreads |-> <<>>]
    /\ staleSpawn = FALSE
    /\ status_sent = [paused |-> 0, resumed |-> 0]

CallIdle == call_args = <<>> /\ call_ret = <<>>

\* The scheduler at the start of _run_loop.
InitLoop ==
    /\ PlanIdle /\ BatchIdle /\ FixIdle
    /\ pc = "p1_top" /\ wait = "none"
    /\ mailbox = <<>> /\ buffered = <<>>
    /\ pstate = "running"
    /\ flag = FALSE /\ excerpts = {}
    /\ queue = SectionOrder /\ completed = {} /\ cur = NoSection
    /\ related \in [Sections -> BOOLEAN]
    /\ results = [s \in Sections |-> NoResult]
    /\ unacked = {}
    /\ sent = {}
    /\ verdict = "none" /\ attempt = 0 /\ mode = "sweep" /\ todo = <<>>
    /\ round_num = 0 /\ stall_count = 0 /\ prev_unresolved = 0
    /\ batches = 0 /\ hashed = {}
    /\ msgsLeft = MaxMsgs /\ togglesLeft = MaxToggles
    /\ abortSeen = FALSE /\ abortSec = NoSection /\ lateSpawn = FALSE
    /\ acPhase2 = FALSE
    /\ needEngine = {} /\ needProcess = {} /\ intr = NoSection /\ requeued = FALSE
    /\ roundsSent = {}
    /\ escalation_file = FALSE /\ fix_model = "none" /\ escalation_round = 0
    /\ unresumed = NoSection

Init == InitLoop /\ CallIdle

(***************************************************************************)
(* The environment: the parent and the pipeline-state lifecycle event.     *)
(***************************************************************************)
\* The environment events that have happened so far.
Events == (MaxMsgs - msgsLeft) + (MaxToggles - togglesLeft)

ParentSend ==
    /\ pc # "done" /\ msgsLeft > 0 /\ Events < MaxEvents
    /\ \E m \in ParentMsgs : mailbox' = Append(mailbox, m)
    /\ msgsLeft' = msgsLeft - 1
    /\ UNCHANGED <<ctlV, buffered, fileV, p1V, resV, sent, alV, coV, pstate,
                   togglesLeft, obsV, auxV, pauseV, escV>>

SetPipelineState ==
    /\ pc # "done" /\ togglesLeft > 0 /\ Events < MaxEvents
    /\ pstate' = IF pstate = "running" THEN "paused" ELSE "running"
    /\ togglesLeft' = togglesLeft - 1
    /\ UNCHANGED <<ctlV, boxV, fileV, p1V, resV, sent, alV, coV, msgsLeft, obsV,
                   auxV, pauseV, escV>>

(***************************************************************************)
(* wait_if_paused (first step of every dispatch_agent call).               *)
(***************************************************************************)
WaitIfPausedEnter ==
    /\ pc \in DispatchPCs /\ wait = "none" /\ pstate = "paused"
    /\ wait' = "paused" /\ buffered' = <<>>
    /\ UNCHANGED <<pc, mailbox, sent, fileV, p1V, resV, alV, coV, envV, auxV, pauseV, escV, obsV>>

WaitIfPausedRecv ==
    /\ wait = "paused" /\ pstate = "paused" /\ mailbox # <<>>
    /\ mailbox' = Tail(mailbox)
    /\ CASE Head(mailbox) = "abort" ->
              /\ sent' = sent \cup {FailAborted(NoSection)}
              /\ pc' = "done" /\ wait' = "none"
              /\ abortSeen' = TRUE /\ abortSec' = cur
              /\ UNCHANGED <<buffered, fileV, acPhase2>>
         [] Head(mailbox) = "alignment_changed" ->
              /\ excerpts' = InvalidateExcerpts(excerpts)
              /\ flag' = TRUE
              /\ acPhase2' = (acPhase2 \/ InPhase2)
              /\ UNCHANGED <<ctlV, buffered, sent, abortSeen, abortSec>>
         [] OTHER ->
              /\ buffered' = Append(buffered, Head(mailbox))
              /\ UNCHANGED <<ctlV, fileV, sent, abortSeen, abortSec, acPhase2>>
    /\ UNCHANGED <<p1V, resV, alV, coV, envV, auxV, pauseV, escV, lateSpawn, requeueV, roundsSent>>

\* The buffered messages are dropped.
ReplayDropped(box, buf) == box
\* `for msg in buffered: mailbox_send(planspace, AGENT_NAME, msg)`
Replay(box, buf) == box \o buf

WaitIfPausedResume ==
    /\ wait = "paused" /\ pstate = "running"
    /\ mailbox' = Replay(mailbox, buffered) /\ buffered' = <<>>
    /\ wait' = "ready"
    /\ UNCHANGED <<pc, sent, fileV, p1V, resV, alV, coV, envV, auxV, pauseV, escV, obsV>>

(***************************************************************************)
(* pause_for_parent (called by run_section after a signal).                *)
(***************************************************************************)
\* Where run_section continues after the parent answered the pause.
AfterPause(p, isResume, fl) ==
    IF ~isResume \/ fl THEN "ret_none"
    ELSE CASE p = "pause_setup" -> "rs_setup"
           [] p = "pause_prop" -> "rs_prop_top"
           [] OTHER -> "rs_impl_top"

PauseForParentRecv ==
    /\ pc \in PausePCs /\ mailbox # <<>>
    /\ mailbox' = Tail(mailbox)
    /\ CASE Head(mailbox) = "abort" ->
              /\ sent' = sent \cup {FailAborted(NoSection)}
              /\ pc' = "done"
              /\ abortSeen' = TRUE /\ abortSec' = cur
              /\ UNCHANGED <<fileV, unresumed>>
         [] Head(mailbox) = "alignment_changed" ->
              /\ excerpts' = InvalidateExcerpts(excerpts)
              /\ flag' = TRUE
              /\ UNCHANGED <<pc, sent, abortSeen, abortSec, unresumed>>
         [] OTHER ->
              /\ \E isResume \in BOOLEAN :
                    /\ pc' = AfterPause(pc, isResume, flag)
                    /\ unresumed' = IF isResume THEN unresumed ELSE cur
              /\ UNCHANGED <<fileV, sent, abortSeen, abortSec>>
    /\ UNCHANGED <<wait, buffered, p1V, resV, alV, coV, envV, auxV, escV, lateSpawn,
                   acPhase2, requeueV, roundsSent>>

(***************************************************************************)
(* _run_loop, Phase 1.                                                     *)
(***************************************************************************)
\* The observation that an agent subprocess starts (sentinel: dispatch_agent
\* returned ALIGNMENT_CHANGED_PENDING without starting one).
SpawnObs(sentinel) == lateSpawn' = (lateSpawn \/ (~sentinel /\ abortSeen))

\* The outer `while True` starts over: Phase 1 state is rebuilt.
RestartPhase1 ==
    /\ pc' = "p1_top"
    /\ results' = [s \in Sections |-> NoResult]
    /\ queue' = SectionOrder /\ completed' = {} /\ cur' = NoSection
    /\ acPhase2' = FALSE /\ roundsSent' = {}

\* `while queue` is false: Phase 2 starts with the alignment sweep.
Phase2Start ==
    /\ pc' = "sw_next" /\ todo' = SectionOrder /\ mode' = "sweep"
    /\ requeued' = FALSE
    /\ UNCHANGED <<wait, boxV, fileV, p1V, resV, sent, verdict, attempt, coV,
                   envV, auxV, pauseV, escV, abortV, acPhase2, needEngine, needProcess, intr,
                   roundsSent>>

\* handle_pending_messages returned True at the top of the Phase 1 loop.
P1Abort(h) ==
    /\ pc' = "done"
    /\ sent' = sent \cup {FailAborted(NoSection)}
    /\ flag' = (flag \/ h.ac)
    /\ excerpts' = IF h.ac THEN InvalidateExcerpts(excerpts) ELSE excerpts
    /\ abortSeen' = TRUE /\ abortSec' = cur
    /\ requeued' = FALSE
    /\ UNCHANGED <<wait, buffered, p1V, resV, alV, coV, envV, auxV, pauseV, escV, lateSpawn,
                   acPhase2, needEngine, needProcess, intr, roundsSent>>

\* The flag is pending at the top of the Phase 1 loop: it is cleared and the
\* completed sections go back to the queue.
P1Requeue(h) ==
    /\ pc' = "p1_top"
    /\ flag' = FALSE
    /\ excerpts' = IF h.ac THEN InvalidateExcerpts(excerpts) ELSE excerpts
    /\ \E q2 \in Requeue(queue, completed) : queue' = q2
    /\ completed' = {}
    /\ needEngine' = needEngine \cup completed
    /\ needProcess' = needProcess \cup completed
    /\ intr' = NoSection /\ requeued' = TRUE
    /\ UNCHANGED <<wait, buffered, cur, related, resV, sent, alV, coV, envV, auxV, pauseV, escV,
                   abortV, acPhase2, roundsSent>>

\* sec_num = queue.pop(0); a section without related files goes to the
\* re-explorer, the others to run_section.
P1Pop ==
    LET sec == Head(queue) IN
    /\ queue' = Tail(queue)
    /\ needProcess' = needProcess \ {sec}
    /\ intr' = NoSection /\ requeued' = FALSE
    /\ IF sec \in completed
       THEN /\ pc' = "p1_top"
            /\ UNCHANGED <<cur, needEngine>>
       ELSE /\ cur' = sec
            /\ pc' = IF related[sec] THEN RunSectionEntry(sec) ELSE "reexplore"
            /\ needEngine' = IF related[sec] THEN needEngine \ {sec} ELSE needEngine
    /\ UNCHANGED <<wait, buffered, fileV, completed, related, resV, sent, alV,
                   coV, envV, auxV, pauseV, escV, abortV, acPhase2, roundsSent>>

P1Top ==
    /\ pc = "p1_top"
    /\ IF queue = <<>>
       THEN Phase2Start
       ELSE LET h == HandlePending(mailbox) IN
            /\ mailbox' = <<>>
            /\ IF h.abort THEN P1Abort(h)
               ELSE IF flag \/ h.ac THEN P1Requeue(h)
               ELSE P1Pop

\* What the re-explorer leaves behind: the section_mode line of its output
\* ("absent": no output file or no such line) and whether it appended
\* related files to the section.
ReexploreOutputs ==
    [section_mode : {"greenfield", "brownfield", "hybrid", "absent"}, found : BOOLEAN]

\* section_mode = "brownfield"  # default
SectionMode(out) ==
    IF out.section_mode = "absent" THEN "brownfield" ELSE out.section_mode

\* _reexplore_section and what _run_loop does with its result.
ReexploreResult(out) ==
    /\ pc = "reexplore" /\ CanSpawn
    /\ wait' = "none"
    /\ SpawnObs(flag)
    /\ IF flag
       THEN \* ALIGNMENT_CHANGED_PENDING: clear, requeue, current section first
            /\ flag' = FALSE
            /\ \E q2 \in Requeue(queue, completed) : queue' = InsertFront(q2, cur)
            /\ completed' = {}
            /\ needEngine' = needEngine \cup completed \cup {cur}
            /\ needProcess' = needProcess \cup completed \cup {cur}
            /\ intr' = cur /\ requeued' = TRUE
            /\ cur' = NoSection /\ pc' = "p1_top"
            /\ UNCHANGED <<related, results, sent>>
       ELSE /\ related' = [related EXCEPT ![cur] = out.found]
            /\ IF out.found
               THEN /\ pc' = RunSectionEntry(cur)
                    /\ needEngine' = needEngine \ {cur}
                    /\ UNCHANGED <<completed, cur, results, sent>>
               ELSE /\ completed' = completed \cup {cur}
                    /\ results' = [results EXCEPT ![cur] = SectionResult(TRUE, "text")]
                    /\ UNCHANGED sent
                    /\ cur' = NoSection /\ pc' = "p1_top"
                    /\ UNCHANGED needEngine
            /\ UNCHANGED <<flag, queue, needProcess, intr, requeued>>
    /\ UNCHANGED <<boxV, excerpts, unacked, alV, coV, envV, auxV, pauseV, escV, abortSeen, abortSec,
                   acPhase2, roundsSent>>

Reexplore == \E out \in ReexploreOutputs : ReexploreResult(out)

\* _run_loop after run_section returned (None: pc = "ret_none").
AfterRunSection ==
    /\ pc \in {"ret_none", "ret_files"}
    /\ IF flag
       THEN /\ flag' = FALSE
            /\ \E q2 \in Requeue(queue, completed) : queue' = InsertFront(q2, cur)
            /\ completed' = {}
            /\ needEngine' = needEngine \cup completed \cup {cur}
            /\ needProcess' = needProcess \cup completed \cup {cur}
            /\ intr' = cur /\ requeued' = TRUE
            /\ cur' = NoSection /\ pc' = "p1_top"
            /\ UNCHANGED <<results, sent>>
       ELSE IF pc = "ret_none"
       THEN /\ pc' = "done"
            /\ UNCHANGED <<flag, queue, completed, cur, results, sent, requeueV>>
       ELSE /\ completed' = completed \cup {cur}
            /\ UNCHANGED sent
            /\ results' = [results EXCEPT ![cur] = SectionResult(TRUE, "null")]
            /\ cur' = NoSection /\ pc' = "p1_top"
            /\ UNCHANGED <<flag, queue, requeueV>>
    /\ UNCHANGED <<wait, boxV, excerpts, related, unacked, alV, coV, envV, auxV, pauseV, escV,
                   abortV, acPhase2, roundsSent>>

(***************************************************************************)
(* run_section (section_engine.py), at its dispatch and drain points.      *)
(* `sent` keeps the messages that end a run or a section: complete,        *)
(* fail:...:aborted, fail:<section>:..., coordination_exhausted; summary,  *)
(* status, done, pause and escalation messages are not recorded.           *)
(***************************************************************************)
\* What run_section leaves alone.
RsFrame ==
    UNCHANGED <<buffered, p1V, results, attempt, mode, todo, coV, envV, auxV, pauseV, escV,
                requeueV, roundsSent>>

HasExcerpts(sec, ex) == \A k \in ExcerptKinds : <<sec, k>> \in ex
FailMsg(sec) == Msg("fail", sec)

\* A worker agent (setup, proposer, implementer) is dispatched; its signal
\* file, when it wrote one with a pausing state, is read right after.
\*   here: the position; adj: where the adjudicator runs; pause: the pause
\*   position; canTimeout: a TIMEOUT result ends run_section with fail.
RsWorker(here, adj, pause, canTimeout) ==
    /\ pc = here /\ CanSpawn
    /\ wait' = "none"
    /\ SpawnObs(flag)
    /\ IF flag
       THEN /\ pc' = "ret_none"
            /\ UNCHANGED <<excerpts, sent, unacked>>
       ELSE \E out \in {"ok", "nothing", "signal"} \cup
                       (IF canTimeout THEN {"timeout"} ELSE {}) :
            /\ excerpts' = IF here = "rs_setup" /\ out = "ok"
                           THEN excerpts \cup {<<cur, k>> : k \in ExcerptKinds}
                           ELSE excerpts
            /\ \E acks \in SUBSET (unacked \cap {cur}) : unacked' = unacked \ acks
            /\ CASE out = "timeout" ->
                      pc' = "ret_none" /\ sent' = sent \cup {FailMsg(cur)}
                 [] out = "signal" ->
                      pc' = pause /\ UNCHANGED sent
                 [] OTHER ->
                      pc' = adj /\ UNCHANGED sent
    /\ UNCHANGED <<mailbox, flag, verdict, abortSeen, abortSec, acPhase2>>
    /\ RsFrame

\* check_agent_signals falls back to the state-adjudicator after a worker
\* agent: any signal pauses; without one the worker's product is verified.
\*   next: where run_section continues when the product exists.
RsWorkerAdj(here, pause, next) ==
    /\ pc = here /\ CanSpawn
    /\ wait' = "none"
    /\ SpawnObs(flag)
    /\ \E sig \in (IF flag THEN {"none"} ELSE {"none", "signal"}) :
       \E written \in (IF here = "rs_setup_adj" THEN {HasExcerpts(cur, excerpts)}
                       ELSE IF here = "rs_prop_adj" THEN BOOLEAN ELSE {TRUE}) :
         IF sig = "signal"
         THEN pc' = pause /\ UNCHANGED sent
         ELSE IF written
         THEN pc' = next /\ UNCHANGED sent
         ELSE pc' = "ret_none" /\ sent' = sent \cup {FailMsg(cur)}
    /\ UNCHANGED <<mailbox, fileV, unacked, verdict, abortSeen, abortSec, acPhase2>>
    /\ RsFrame

RsSetup == RsWorker("rs_setup", "rs_setup_adj", "pause_setup", FALSE)
RsSetupAdj == RsWorkerAdj("rs_setup_adj", "pause_setup", "rs_prop_top")
RsProp == RsWorker("rs_prop", "rs_prop_adj", "pause_prop", TRUE)
RsPropAdj == RsWorkerAdj("rs_prop_adj", "pause_prop", "rs_palign")
RsImpl == RsWorker("rs_impl", "rs_impl_adj", "pause_impl", TRUE)
RsImplAdj == RsWorkerAdj("rs_impl_adj", "pause_impl", "rs_ialign")

\* Top of the proposal loop and of the implementation loop:
\* handle_pending_messages(planspace, [], set()), then the flag test.
RsLoopTop(here, next) ==
    /\ pc = here
    /\ LET h == HandlePending(mailbox) IN
       /\ mailbox' = <<>>
       /\ flag' = (flag \/ h.ac)
       /\ excerpts' = IF h.ac THEN InvalidateExcerpts(excerpts) ELSE excerpts
       /\ IF h.abort
          THEN /\ pc' = "ret_none"
               /\ sent' = sent \cup {FailAborted(cur)}
               /\ abortSeen' = TRUE /\ abortSec' = cur
          ELSE /\ pc' = IF flag \/ h.ac THEN "ret_none" ELSE next
               /\ UNCHANGED <<sent, abortSeen, abortSec>>
    /\ UNCHANGED <<wait, unacked, verdict, lateSpawn, acPhase2>>
    /\ RsFrame

RsPropTop == RsLoopTop("rs_prop_top", "rs_prop")
RsImplTop == RsLoopTop("rs_impl_top", "rs_impl")

\* The alignment judge inside run_section: TIMEOUT retries the loop,
\* otherwise _extract_problems classifies the output and the signal file,
\* when it says underspec, pauses.
RsJudge(here, adj, top, pause) ==
    /\ pc = here /\ CanSpawn
    /\ wait' = "none"
    /\ SpawnObs(flag)
    /\ IF flag
       THEN /\ pc' = "ret_none"
            /\ UNCHANGED <<verdict, sent>>
       ELSE \E out \in {"timeout", "underspec", "aligned", "problems", "empty"} :
            CASE out = "timeout" ->
                   pc' = top /\ UNCHANGED <<verdict, sent>>
              [] out = "underspec" ->
                   pc' = pause /\ UNCHANGED sent /\ UNCHANGED verdict
              [] OTHER ->
                   pc' = adj /\ verdict' = out /\ UNCHANGED sent
    /\ UNCHANGED <<mailbox, fileV, unacked, abortSeen, abortSec, acPhase2>>
    /\ RsFrame

\* The state-adjudicator after the judge: only underspec pauses; a verdict
\* without problems (problems is None) leaves the loop, anything else is
\* fed back into the next attempt.
RsJudgeAdj(here, top, pause, nexts) ==
    /\ pc = here /\ CanSpawn
    /\ wait' = "none"
    /\ SpawnObs(flag)
    /\ verdict' = "none"
    /\ \E sig \in (IF flag THEN {"none"} ELSE {"none", "underspec", "other"}) :
         IF sig = "underspec"
         THEN pc' = pause /\ UNCHANGED sent
         ELSE IF verdict = "aligned"
         THEN (\E n \in nexts : pc' = n) /\ UNCHANGED sent
         ELSE pc' = top /\ UNCHANGED sent
    /\ UNCHANGED <<mailbox, fileV, unacked, abortSeen, abortSec, acPhase2>>
    /\ RsFrame

\* Another section has related files (post_section_completion has a reader).
OthersHaveFiles == \E s \in Sections \ {cur} : related[s]
\* After the implementation is aligned: the tool registrar, the impact
\* analysis, or the return.
AfterImplAligned ==
    {"rs_registrar", "ret_files"} \cup (IF OthersHaveFiles THEN {"rs_impact"} ELSE {})

RsPAlign == RsJudge("rs_palign", "rs_palign_adj", "rs_prop_top", "pause_prop")
RsPAlignAdj ==
    RsJudgeAdj("rs_palign_adj", "rs_prop_top", "pause_prop", {"rs_micro_poll", "rs_impl_top"})
RsIAlign == RsJudge("rs_ialign", "rs_ialign_adj", "rs_impl_top", "pause_impl")
RsIAlignAdj ==
    RsJudgeAdj("rs_ialign_adj", "rs_impl_top", "pause_impl", AfterImplAligned)

\* The effects of poll_control_messages(planspace, parent, sec) other than
\* on the caller's control flow; okMsgs is what the caller sends right
\* after a poll that found no control message.
PollEffects(sec, okMsgs) ==
    LET r == PollControl(mailbox) IN
    /\ mailbox' = IF r.abort THEN <<>> ELSE r.replay
    /\ flag' = (flag \/ r.ac)
    /\ excerpts' = IF r.ac THEN InvalidateExcerpts(excerpts) ELSE excerpts
    /\ sent' = IF r.abort THEN sent \cup {FailAborted(sec)}
               ELSE IF r.ac THEN sent ELSE sent \cup okMsgs
    /\ abortSeen' = (abortSeen \/ r.abort)
    /\ abortSec' = IF r.abort THEN sec ELSE abortSec

\* Where the caller of poll_control_messages goes.
PollTarget(acPc, okPc) ==
    IF PollControl(mailbox).abort THEN "done"
    ELSE IF PollControl(mailbox).ac THEN acPc ELSE okPc

\* Step 2.5: the poll before the microstrategy dispatch.
RsMicroPoll ==
    /\ pc = "rs_micro_poll"
    /\ PollEffects(cur, {})
    /\ pc' = PollTarget("ret_none", "rs_micro")
    /\ UNCHANGED <<wait, unacked, verdict, lateSpawn, acPhase2>>
    /\ RsFrame

RsMicro ==
    /\ pc = "rs_micro" /\ CanSpawn
    /\ wait' = "none"
    /\ SpawnObs(flag)
    /\ pc' = IF flag THEN "ret_none" ELSE "rs_impl_top"
    /\ UNCHANGED <<mailbox, fileV, unacked, sent, verdict, abortSeen, abortSec,
                   acPhase2>>
    /\ RsFrame

\* Step 3b: the tool registrar; its result is not looked at.
RsRegistrar ==
    /\ pc = "rs_registrar" /\ CanSpawn
    /\ wait' = "none"
    /\ SpawnObs(flag)
    /\ \E n \in AfterImplAligned \ {"rs_registrar"} : pc' = n
    /\ UNCHANGED <<mailbox, fileV, unacked, sent, verdict, abortSeen, abortSec,
                   acPhase2>>
    /\ RsFrame

\* Step 4: post_section_completion dispatches the impact analysis and
\* writes a consequence note to every section it names.
RsImpact ==
    /\ pc = "rs_impact" /\ CanSpawn
    /\ wait' = "none"
    /\ SpawnObs(flag)
    /\ \E targets \in (IF flag THEN {{}}
                       ELSE SUBSET {s \in Sections \ {cur} : related[s]}) :
         unacked' = unacked \cup targets
    /\ pc' = "ret_files"
    /\ UNCHANGED <<mailbox, fileV, sent, verdict, abortSeen, abortSec, acPhase2>>
    /\ RsFrame

(***************************************************************************)
(* _run_loop, Phase 2: the alignment sweep over all sections.              *)
(***************************************************************************)
\* What the alignment check leaves alone.
AlFrame ==
    UNCHANGED <<buffered, related, coV, envV, auxV, pauseV, escV, requeueV>>

\* Phase 1 starts over from a position of Phase 2 (restart_phase1).
Restart ==
    /\ RestartPhase1
    /\ UNCHANGED <<related, unacked>>

\* Next section of the sweep: sections without related files are skipped;
\* the others are polled for and handed to the alignment check (whose
\* first attempt polls again at once).
SweepNext ==
    /\ pc = "sw_next"
    /\ IF todo = <<>>
       THEN /\ pc' = "decide"
            /\ UNCHANGED <<mailbox, fileV, queue, completed, cur, results,
                           unacked, sent, attempt, todo, abortV, acPhase2,
                           roundsSent>>
       ELSE IF ~related[Head(todo)]
       THEN /\ todo' = Tail(todo)
            /\ UNCHANGED <<pc, mailbox, fileV, queue, completed, cur, results,
                           unacked, sent, attempt, abortV, acPhase2, roundsSent>>
       ELSE /\ PollEffects(Head(todo), {})
            /\ UNCHANGED lateSpawn
            /\ IF PollControl(mailbox).abort
               THEN /\ pc' = "done"
                    /\ UNCHANGED <<queue, completed, cur, results, unacked, attempt,
                                   todo, acPhase2, roundsSent>>
               ELSE IF PollControl(mailbox).ac
               THEN Restart /\ todo' = <<>> /\ UNCHANGED attempt
               ELSE /\ pc' = "al_disp" /\ cur' = Head(todo) /\ attempt' = 1
                    /\ UNCHANGED <<queue, completed, results, unacked, todo,
                                   acPhase2, roundsSent>>
    /\ UNCHANGED <<wait, verdict, mode>>
    /\ AlFrame

(***************************************************************************)
(* _run_alignment_check_with_retries and the evaluation of its result, as  *)
(* used by the sweep (mode = "sweep") and by the coordinator's re-check    *)
(* (mode = "coord").                                                       *)
(***************************************************************************)
\* The check returned ALIGNMENT_CHANGED_PENDING: the sweep restarts Phase 1,
\* run_global_coordination returns False.  acNow: an alignment_changed
\* message was consumed by this very step.
AlSentinel(acNow) ==
    /\ todo' = <<>> /\ attempt' = 0 /\ verdict' = "none"
    /\ IF mode = "sweep"
       THEN Restart
       ELSE /\ pc' = "co_ret_false" /\ cur' = NoSection
            /\ acPhase2' = (acPhase2 \/ acNow)
            /\ UNCHANGED <<queue, completed, related, results, unacked, roundsSent>>

\* section_results[sec_num] is assigned and the loop goes to the next section.
AlRecord(res) ==
    /\ results' = [results EXCEPT ![cur] = res]
    /\ todo' = Tail(todo) /\ attempt' = 0 /\ verdict' = "none"
    /\ cur' = NoSection
    /\ pc' = IF mode = "sweep" THEN "sw_next" ELSE "co_recheck"
    /\ UNCHANGED <<queue, completed, related, unacked, acPhase2, roundsSent>>

\* The poll at the top of attempts 2 and 3.
AlPoll ==
    /\ pc = "al_poll"
    /\ PollEffects(cur, {})
    /\ IF PollControl(mailbox).abort
       THEN /\ pc' = "done"
            /\ UNCHANGED <<queue, completed, cur, related, results, unacked,
                           verdict, attempt, todo, acPhase2, roundsSent>>
       ELSE IF PollControl(mailbox).ac
       THEN AlSentinel(TRUE)
       ELSE /\ pc' = "al_disp"
            /\ UNCHANGED <<queue, completed, cur, related, results, unacked,
                           verdict, attempt, todo, acPhase2, roundsSent>>
    /\ UNCHANGED <<wait, buffered, mode, coV, envV, auxV, pauseV, escV, lateSpawn, requeueV>>

\* The alignment judge is dispatched.  A TIMEOUT and a verdict with
\* frame_ok false both use up the attempt; after the third the check
\* returns None.  A signal file of the judge is read right after.
AlDispatch ==
    /\ pc = "al_disp" /\ CanSpawn
    /\ wait' = "none"
    /\ SpawnObs(flag)
    /\ IF flag
       THEN AlSentinel(FALSE)
       ELSE \E out \in {"timeout", "badframe", "signal", "aligned", "problems", "empty"} :
            CASE out \in {"timeout", "badframe"} ->
                   IF attempt < max_retries + 1
                   THEN /\ pc' = "al_poll" /\ attempt' = attempt + 1
                        /\ UNCHANGED <<queue, completed, cur, related, results,
                                       unacked, verdict, todo, acPhase2, roundsSent>>
                   ELSE AlRecord(SectionResult(FALSE, "text"))
              [] out = "signal" -> AlRecord(SectionResult(FALSE, "text"))
              [] OTHER ->
                   /\ pc' = "al_adj" /\ verdict' = out /\ attempt' = 0
                   /\ UNCHANGED <<queue, completed, cur, related, results,
                                  unacked, todo, acPhase2, roundsSent>>
    /\ UNCHANGED <<boxV, fileV, sent, mode, coV, envV, auxV, pauseV, escV, abortSeen, abortSec, requeueV>>

\* problems=combined_problems or None, for a judge output that
\* _extract_problems classified as v and a signal (or none) of the adjudicator.
CombinedProblems(v, sig) ==
    IF v = "problems" \/ sig # "none" THEN "text" ELSE "null"

\* check_agent_signals falls back to the state-adjudicator; then the
\* section's result is recorded.
AlAdjudicate ==
    /\ pc = "al_adj" /\ CanSpawn
    /\ wait' = "none"
    /\ SpawnObs(flag)
    /\ \E sig \in (IF flag THEN {"none"} ELSE {"none", "signal"}) :
         IF verdict = "aligned" /\ sig = "none"
         THEN AlRecord(SectionResult(TRUE, "null"))
         ELSE AlRecord(SectionResult(FALSE, CombinedProblems(verdict, sig)))
    /\ UNCHANGED <<boxV, fileV, sent, mode, coV, envV, auxV, pauseV, escV, abortSeen, abortSec, requeueV>>

(***************************************************************************)
(* _run_loop, Phase 2: after the sweep.                                    *)
(***************************************************************************)
\* The coordinator's local variables, dead outside the coordinator loop.
CoReset ==
    /\ round_num' = 0 /\ stall_count' = 0 /\ prev_unresolved' = 0 /\ batches' = 0
    /\ escalation_round' = 0

\* The final poll before `complete`.
FinalPoll ==
    /\ PollEffects(NoSection, {Complete})
    /\ IF PollControl(mailbox).abort \/ ~PollControl(mailbox).ac
       THEN /\ pc' = "done"
            /\ UNCHANGED <<queue, completed, cur, related, results, unacked,
                           acPhase2, roundsSent, todo, attempt, verdict,
                           round_num, stall_count, prev_unresolved, batches,
                           escalation_round>>
       ELSE /\ Restart /\ CoReset
            /\ UNCHANGED <<todo, attempt, verdict>>

\* misaligned empty: final poll, then complete; else the coordinator loop
\* is set up.
Decide ==
    /\ pc = "decide"
    /\ IF Misaligned(results) = {}
       THEN FinalPoll
       ELSE /\ prev_unresolved' = Cardinality(Misaligned(results))
            /\ stall_count' = 0 /\ round_num' = 0 /\ escalation_round' = 0
            /\ pc' = "co_round"
            /\ UNCHANGED <<mailbox, fileV, sent, abortSeen, abortSec, queue,
                           completed, cur, related, results, unacked, acPhase2,
                           roundsSent, todo, attempt, verdict, batches>>
    /\ UNCHANGED <<wait, buffered, mode, hashed, envV, auxV, pauseV, escalation_file,
                   fix_model, lateSpawn, requeueV>>

(***************************************************************************)
(* The coordinator loop of _run_loop and run_global_coordination           *)
(* (coordination.py).                                                      *)
(***************************************************************************)
\* _collect_outstanding_problems: a misaligned section counts only when its
\* result carries a problems text; a consequence note counts when its
\* target is aligned and has not acknowledged it.
CollectOutstandingProblems(res, notes) ==
    {<<"misaligned", s>> : s \in {t \in Sections :
            res[t].present /\ ~res[t].aligned /\ res[t].problems = "text"}}
    \cup
    {<<"unaddressed_note", s>> : s \in {t \in notes :
            res[t].present /\ res[t].aligned}}
ProblemSections(P) == {p[2] : p \in P}

\* What the coordinator leaves alone.
CoFrame ==
    UNCHANGED <<buffered, related, envV, auxV, pauseV, escalation_file, requeueV>>

\* One iteration of `while round_num < MAX_COORDINATION_ROUNDS` up to the
\* planner dispatch: the poll, the status message, the collection of the
\* problems and the poll of run_global_coordination.
CoRound ==
    /\ pc = "co_round"
    /\ IF round_num >= MAX_COORDINATION_ROUNDS
       THEN /\ pc' = "co_exit"
            /\ UNCHANGED <<mailbox, fileV, sent, abortSeen, abortSec, queue,
                           completed, cur, results, unacked, acPhase2,
                           roundsSent, todo, mode, round_num, stall_count,
                           prev_unresolved, batches>>
       ELSE /\ PollEffects(NoSection, {})
            /\ IF PollControl(mailbox).abort
               THEN /\ pc' = "done" /\ round_num' = round_num + 1
                    /\ UNCHANGED <<queue, completed, cur, results, unacked,
                                   acPhase2, roundsSent, todo, mode,
                                   stall_count, prev_unresolved, batches>>
               ELSE IF PollControl(mailbox).ac
               THEN /\ RestartPhase1 /\ CoReset
                    /\ UNCHANGED <<unacked, todo, mode>>
               ELSE /\ round_num' = round_num + 1
                    /\ roundsSent' = roundsSent \cup {round_num + 1}
                    /\ LET P == CollectOutstandingProblems(results, unacked) IN
                       IF P = {}
                       THEN pc' = "co_ret_true" /\ UNCHANGED <<todo, mode>>
                       ELSE /\ pc' = "co_plan" /\ mode' = "coord"
                            /\ todo' = Sorted(ProblemSections(P))
                    /\ UNCHANGED <<queue, completed, cur, results, unacked,
                                   acPhase2, stall_count, prev_unresolved, batches>>
    /\ escalation_round' = 0
    /\ UNCHANGED <<wait, verdict, attempt, hashed, lateSpawn, fix_model>>
    /\ CoFrame

\* The coordination planner is dispatched and its plan (or the fallback)
\* is turned into execution batches: between one batch and one per
\* problem.  A plan whose group is not a container makes
\* _parse_coordination_plan raise, which ends the process.
CoPlan ==
    /\ pc = "co_plan" /\ CanSpawn
    /\ wait' = "none"
    /\ SpawnObs(flag)
    /\ IF flag
       THEN pc' = "co_ret_false" /\ UNCHANGED batches
       ELSE \E out \in {"plan", "raise"} :
            IF out = "raise"
            THEN pc' = "done" /\ UNCHANGED batches
            ELSE /\ pc' = "co_batch"
                 /\ \E nb \in 1..Cardinality(CollectOutstandingProblems(results, unacked)) :
                      batches' = nb
    /\ UNCHANGED <<mailbox, fileV, sent, abortSeen, abortSec, queue, completed,
                   cur, results, unacked, acPhase2, roundsSent, todo, mode,
                   verdict, attempt, round_num, stall_count, prev_unresolved,
                   hashed, fix_model, escalation_round>>
    /\ CoFrame

\* Top of `for batch_num, batch in enumerate(batches)`: the poll, then the
\* bridge agent when a group of the batch spans several sections.  After
\* the last batch the affected sections are determined: the sections that
\* had problems and the sections whose files were modified.
CoBatch ==
    /\ pc = "co_batch"
    /\ IF batches = 0
       THEN /\ \E extra \in SUBSET {s \in Sections : related[s]} :
                 todo' = Sorted(Range(todo) \cup extra)
            /\ pc' = "co_recheck"
            /\ UNCHANGED <<mailbox, fileV, sent, abortSeen, abortSec, acPhase2>>
       ELSE /\ PollEffects(NoSection, {})
            /\ acPhase2' = (acPhase2 \/ PollControl(mailbox).ac)
            /\ \E b \in (IF Len(todo) >= 2 THEN {"co_bridge", "co_fix"} ELSE {"co_fix"}) :
                 pc' = PollTarget("co_ret_false", b)
            /\ UNCHANGED todo
    /\ UNCHANGED <<wait, queue, completed, cur, results, unacked, roundsSent,
                   mode, verdict, attempt, coV, lateSpawn, fix_model, escalation_round>>
    /\ CoFrame

\* The bridge agent; its result is not looked at.
CoBridge ==
    /\ pc = "co_bridge" /\ CanSpawn
    /\ wait' = "none"
    /\ SpawnObs(flag)
    /\ pc' = "co_fix"
    /\ UNCHANGED <<mailbox, fileV, sent, abortSeen, abortSec, queue, completed,
                   cur, results, unacked, acPhase2, roundsSent, alV, coV,
                   fix_model, escalation_round>>
    /\ CoFrame

\* The model _dispatch_fix_group hands to dispatch_agent: the content of
\* the escalation file when it exists (FixModelDefault: the file is not read).
DefaultFixModel == "gpt-5.3-codex-high"
EscalatedFixModel == "gpt-5.3-codex-xhigh"
FixModelDefault(file) == DefaultFixModel
FixModel(file) == IF file THEN EscalatedFixModel ELSE DefaultFixModel

\* _dispatch_fix_group for the groups of the batch; the fix agents may
\* acknowledge consequence notes.
CoFix ==
    /\ pc = "co_fix" /\ CanSpawn
    /\ wait' = "none"
    /\ fix_model' = FixModel(escalation_file)
    /\ SpawnObs(flag)
    /\ IF flag
       THEN pc' = "co_ret_false" /\ UNCHANGED <<batches, unacked>>
       ELSE /\ pc' = "co_batch" /\ batches' = batches - 1
            /\ \E acks \in SUBSET unacked : unacked' = unacked \ acks
    /\ UNCHANGED <<mailbox, fileV, sent, abortSeen, abortSec, queue, completed,
                   cur, results, acPhase2, roundsSent, alV, round_num,
                   stall_count, prev_unresolved, hashed, escalation_round>>
    /\ CoFrame

\* Step 4: `for sec_num in sorted(affected_sections)`: a section whose
\* stored inputs hash is unchanged is skipped; the others are polled for
\* and handed to the alignment check.  After the last one the result of
\* run_global_coordination is whether any section is still not aligned.
CoRecheck ==
    /\ pc = "co_recheck"
    /\ IF todo = <<>>
       THEN /\ pc' = IF Misaligned(results) = {} THEN "co_ret_true" ELSE "co_ret_false"
            /\ UNCHANGED <<mailbox, fileV, sent, abortSeen, abortSec, cur, todo,
                           attempt, hashed, acPhase2>>
       ELSE \E skip \in (IF Head(todo) \in hashed THEN BOOLEAN ELSE {FALSE}) :
            IF skip
            THEN /\ todo' = Tail(todo)
                 /\ UNCHANGED <<pc, mailbox, fileV, sent, abortSeen, abortSec,
                                cur, attempt, hashed, acPhase2>>
            ELSE /\ hashed' = hashed \cup {Head(todo)}
                 /\ PollEffects(Head(todo), {})
                 /\ acPhase2' = (acPhase2 \/ PollControl(mailbox).ac)
                 /\ pc' = PollTarget("co_ret_false", "al_disp")
                 /\ IF PollControl(mailbox).abort \/ PollControl(mailbox).ac
                    THEN UNCHANGED <<cur, attempt, todo>>
                    ELSE cur' = Head(todo) /\ attempt' = 1 /\ UNCHANGED todo
    /\ UNCHANGED <<wait, queue, completed, results, unacked, roundsSent, mode,
                   verdict, round_num, stall_count, prev_unresolved, batches,
                   lateSpawn, fix_model, escalation_round>>
    /\ CoFrame

\* The round made no progress only when the count went up.
StalledWhenWorse(cur_unresolved, prev) == cur_unresolved > prev
\* `if cur_unresolved >= prev_unresolved`: the round made no progress.
Stalled(cur_unresolved, prev) == cur_unresolved >= prev

\* The stop one stalled round later.
StopAfterFour(rn, sc) == rn >= MIN_COORDINATION_ROUNDS /\ sc >= 4
\* `if round_num >= MIN_COORDINATION_ROUNDS and stall_count >= 3`.
StopStalled(rn, sc) == rn >= MIN_COORDINATION_ROUNDS /\ sc >= 3

\* Adaptive termination after a round that did not finish: the stall
\* counter, the escalation file and message at two stalled rounds, and the
\* stop at three stalled rounds.
CoStall ==
    LET cur_unresolved == Cardinality(Misaligned(results))
        stalled == Stalled(cur_unresolved, prev_unresolved)
        sc == IF stalled THEN stall_count + 1 ELSE 0
    IN
    /\ stall_count' = sc
    /\ UNCHANGED sent
    /\ IF stalled /\ sc = 2
       THEN escalation_file' = TRUE /\ escalation_round' = round_num
       ELSE UNCHANGED <<escalation_file, escalation_round>>
    /\ IF stalled /\ StopStalled(round_num, sc)
       THEN pc' = "co_exit" /\ UNCHANGED prev_unresolved
       ELSE pc' = "co_round" /\ prev_unresolved' = cur_unresolved
    /\ UNCHANGED <<mailbox, fileV, abortSeen, abortSec, queue, completed, cur,
                   related, results, unacked, acPhase2, roundsSent, todo,
                   attempt, verdict, round_num, batches>>

\* _run_loop after run_global_coordination returned.
CoAfter ==
    /\ pc \in {"co_ret_true", "co_ret_false"}
    /\ IF flag
       THEN /\ flag' = FALSE
            /\ Restart /\ CoReset
            /\ todo' = <<>>
            /\ UNCHANGED <<mailbox, excerpts, sent, abortSeen, abortSec,
                           attempt, verdict, escalation_file>>
       ELSE IF pc = "co_ret_true"
       THEN FinalPoll /\ UNCHANGED escalation_file
       ELSE CoStall
    /\ fix_model' = "none"
    /\ UNCHANGED <<wait, buffered, mode, hashed, envV, auxV, pauseV, lateSpawn, requeueV>>

\* After the coordinator loop: every section still not aligned is reported
\* as coordination_exhausted; with none left _run_loop just returns.
CoExit ==
    /\ pc = "co_exit"
    /\ pc' = "done"
    /\ sent' = sent \cup {Msg("coordination_exhausted", s) : s \in Misaligned(results)}
    /\ UNCHANGED <<wait, boxV, fileV, p1V, resV, alV, coV, envV, auxV, pauseV, escV, obsV>>

Next ==
    \/ ParentSend \/ SetPipelineState
    \/ WaitIfPausedEnter \/ WaitIfPausedRecv \/ WaitIfPausedResume
    \/ PauseForParentRecv
    \/ P1Top \/ Reexplore \/ AfterRunSection
    \/ RsSetup \/ RsSetupAdj \/ RsPropTop \/ RsProp \/ RsPropAdj
    \/ RsPAlign \/ RsPAlignAdj \/ RsMicroPoll \/ RsMicro
    \/ RsImplTop \/ RsImpl \/ RsImplAdj \/ RsIAlign \/ RsIAlignAdj
    \/ RsRegistrar \/ RsImpact
    \/ SweepNext \/ AlPoll \/ AlDispatch \/ AlAdjudicate \/ Decide
    \/ CoRound \/ CoPlan \/ CoBatch \/ CoBridge \/ CoFix \/ CoRecheck
    \/ CoAfter \/ CoExit

Spec == Init /\ [][Next]_vars

(***************************************************************************)
(* Inside run_global_coordination.  The planning step and the batch        *)
(* building happen within the planner dispatch of CoPlan, a parallel batch *)
(* within the fix dispatch of CoFix; they are specified on their own,      *)
(* starting from the scheduler's state at that position.                   *)
(***************************************************************************)
mainV == <<ctlV, boxV, fileV, p1V, resV, sent, alV, coV, envV, obsV, escV, pauseV>>

\* The scheduler in coordination round 1 at position p, every section
\* through Phase 1, at least one found misaligned by the sweep, no message
\* received so far.
InCoordination(p, nb) ==
    /\ pc = p /\ wait = "none"
    /\ mailbox = <<>> /\ buffered = <<>>
    /\ pstate = "running"
    /\ flag = FALSE /\ excerpts = Sections \X ExcerptKinds
    /\ queue = <<>> /\ completed = Sections /\ cur = NoSection
    /\ related = [s \in Sections |-> TRUE]
    /\ results \in {r \in [Sections -> {SectionResult(FALSE, "text"),
                                         SectionResult(TRUE, "null")}] :
                        Misaligned(r) # {}}
    /\ unacked = {}
    /\ sent = {}
    /\ verdict = "none" /\ attempt = 0 /\ mode = "coord"
    /\ todo = Sorted(Misaligned(results))
    /\ round_num = 1 /\ stall_count = 0
    /\ prev_unresolved = Cardinality(Misaligned(results))
    /\ batches = nb /\ hashed = {}
    /\ msgsLeft = MaxMsgs /\ togglesLeft = MaxToggles
    /\ abortSeen = FALSE /\ abortSec = NoSection /\ lateSpawn = FALSE
    /\ acPhase2 = FALSE
    /\ needEngine = {} /\ needProcess = {} /\ intr = NoSection /\ requeued = FALSE
    /\ roundsSent = {1}
    /\ escalation_file = FALSE /\ fix_model = "none" /\ escalation_round = 0
    /\ unresumed = NoSection

\* The sequences over S of length at most n.
SeqsUpTo(S, n) == UNION {[1..k -> S] : k \in 0..n}

(***************************************************************************)
(* _parse_coordination_plan, the fallback and confirmed_groups             *)
(* (coordination.py).                                                      *)
(***************************************************************************)
\* Bounds of the planner outputs: groups in a plan, indices in a group.
MaxPlanGroups == 2
MaxGroupLen == 2

\* len(problems)
NProblems == Cardinality(CollectOutstandingProblems(results, unacked))

\* An element of a group's "problems" list, by its JSON type: a number k,
\* true/false (value 1/0), anything else.
IdxValues ==
    {<<"int", k>> : k \in (-1)..Cardinality(Sections)}
    \cup {<<"bool", 0>>, <<"bool", 1>>, <<"other", 0>>}
\* isinstance(idx, int): bool is a subclass of int.
IsInt(idx) == idx[1] \in {"int", "bool"}

\* An element of plan["groups"]:
\*   "scalar"      a number, true, false or null
\*   "array"       a JSON array
\*   "noprob"      an object without "problems"
\*   "probnotlist" an object whose "problems" is not an array
\*   "list"        an object whose "problems" is the array `problems`
GroupValues ==
    {[kind |-> k, problems |-> <<>>] :
        k \in {"scalar", "array", "noprob", "probnotlist"}}
    \cup {[kind |-> "list", problems |-> q] : q \in SeqsUpTo(IdxValues, MaxGroupLen)}

\* What the planner's output holds:
\*   "nojson"        no code fence with "groups" and no {...} (a TIMEOUT text)
\*   "badjson"       text that json.loads rejects
\*   "array_with"    a fenced JSON array with the string "groups" as element
\*   "array_without" a fenced JSON array without such an element
\*   "nogroups"      an object without "groups"
\*   "groupsnotlist" an object whose "groups" is not an array
\*   "groups"        an object whose "groups" is the array `groups`
PlanResults ==
    {[kind |-> k, groups |-> <<>>] :
        k \in {"nojson", "badjson", "array_with", "array_without", "nogroups",
               "groupsnotlist"}}
    \cup {[kind |-> "groups", groups |-> q] : q \in SeqsUpTo(GroupValues, MaxPlanGroups)}

\* The loop `for idx in g["problems"]`: it stops at the first element that
\* is no int, is out of range or was seen before.
RECURSIVE ScanIndices(_, _, _)
ScanIndices(idxs, seen, n) ==
    IF idxs = <<>> THEN [ok |-> TRUE, seen |-> seen]
    ELSE LET idx == Head(idxs) IN
         IF ~IsInt(idx) \/ idx[2] < 0 \/ idx[2] >= n \/ idx[2] \in seen
         THEN [ok |-> FALSE, seen |-> seen]
         ELSE ScanIndices(Tail(idxs), seen \cup {idx[2]}, n)

\* The fallback plan: one group per problem.
FallbackGroups(n) == [i \in 1..n |-> <<i - 1>>]
\* [problems[i] for i in g["problems"]], as indices.
GroupIndices(g) == [j \in 1..Len(g.problems) |-> g.problems[j][2]]

InitPlan ==
    /\ InCoordination("co_plan", 0)
    /\ BatchIdle /\ FixIdle /\ CallIdle
    /\ plan_result \in PlanResults
    /\ plan_pos = "extract" /\ plan_left = <<>>
    /\ seen_indices = {} /\ plan_ret = "pending" /\ confirmed_groups = <<>>

PlanFrame == UNCHANGED <<mainV, batchV, fixV, callV, plan_result>>

\* The JSON text is extracted and loaded.
PlanExtract ==
    /\ plan_pos = "extract"
    /\ IF plan_result.kind \in {"nojson", "badjson"}
       THEN plan_pos' = "fallback" /\ plan_ret' = "none"
       ELSE plan_pos' = "structure" /\ UNCHANGED plan_ret
    /\ UNCHANGED <<plan_left, seen_indices, confirmed_groups>>
    /\ PlanFrame

\* `if "groups" not in plan or not isinstance(plan["groups"], list)`: on an
\* array that has the element "groups", plan["groups"] raises TypeError.
PlanStructure ==
    /\ plan_pos = "structure"
    /\ CASE plan_result.kind = "array_with" ->
              plan_pos' = "done" /\ plan_ret' = "raise" /\ UNCHANGED plan_left
         [] plan_result.kind = "groups" ->
              plan_pos' = "groups" /\ plan_left' = plan_result.groups
              /\ UNCHANGED plan_ret
         [] OTHER ->
              plan_pos' = "fallback" /\ plan_ret' = "none" /\ UNCHANGED plan_left
    /\ UNCHANGED <<seen_indices, confirmed_groups>>
    /\ PlanFrame

\* One iteration of `for g in plan["groups"]`: on a group that is no
\* container, `"problems" not in g` raises TypeError.
PlanGroup ==
    /\ plan_pos = "groups" /\ plan_left # <<>>
    /\ LET g == Head(plan_left)
           scan == ScanIndices(g.problems, seen_indices, NProblems)
       IN
       CASE g.kind = "scalar" ->
              plan_pos' = "done" /\ plan_ret' = "raise"
              /\ UNCHANGED <<plan_left, seen_indices>>
         [] g.kind = "list" /\ scan.ok ->
              plan_left' = Tail(plan_left) /\ seen_indices' = scan.seen
              /\ UNCHANGED <<plan_pos, plan_ret>>
         [] OTHER ->
              plan_pos' = "fallback" /\ plan_ret' = "none"
              /\ UNCHANGED <<plan_left, seen_indices>>
    /\ UNCHANGED confirmed_groups
    /\ PlanFrame

\* After the loop: `if len(seen_indices) != n`.
PlanCount ==
    /\ plan_pos = "groups" /\ plan_left = <<>>
    /\ IF Cardinality(seen_indices) # NProblems
       THEN plan_pos' = "fallback" /\ plan_ret' = "none"
       ELSE plan_pos' = "confirm" /\ plan_ret' = "plan"
    /\ UNCHANGED <<plan_left, seen_indices, confirmed_groups>>
    /\ PlanFrame

\* run_global_coordination: the fallback when the parser returned None,
\* then confirmed_groups.
PlanConfirm ==
    /\ plan_pos \in {"fallback", "confirm"}
    /\ confirmed_groups' =
          IF plan_ret = "none" THEN FallbackGroups(NProblems)
          ELSE [i \in 1..Len(plan_result.groups) |-> GroupIndices(plan_result.groups[i])]
    /\ plan_pos' = "done"
    /\ UNCHANGED <<plan_left, seen_indices, plan_ret>>
    /\ PlanFrame

NextPlan ==
    PlanExtract \/ PlanStructure \/ PlanGroup \/ PlanCount \/ PlanConfirm

SpecPlan == InitPlan /\ [][NextPlan]_vars

(***************************************************************************)
(* run_global_coordination, Step 3: the execution batches.                 *)
(***************************************************************************)
\* Bounds: groups of a round, files they can touch.
MaxGroups == 3
MaxFiles == 3
Files == 1..MaxFiles

\* batch_files: the files of the groups (numbered from 0) of a batch.
BatchFiles(batch) == UNION {group_file_sets[b + 1] : b \in Range(batch)}

\* The test without `if not batch_files: continue`.
JoinableAnyBatch(files, batch_files) == files \cap batch_files = {}
\* A group with the file set `files` joins a batch: the batch has files
\* (else it is skipped) and shares none with the group.
Joinable(files, batch_files) ==
    batch_files # {} /\ files \cap batch_files = {}

\* The first batch the group can join, 0 when there is none.
FirstFit(files) ==
    LET fit == {i \in 1..Len(exec_batches) :
                    Joinable(files, BatchFiles(exec_batches[i]))}
    IN IF fit = {} THEN 0 ELSE CHOOSE i \in fit : \A j \in fit : i <= j

InitBatch ==
    /\ InCoordination("co_plan", 0)
    /\ PlanIdle /\ FixIdle /\ CallIdle
    /\ group_file_sets \in SeqsUpTo(SUBSET Files, MaxGroups)
    /\ gidx = 0 /\ exec_batches = <<>>

BatchFrame == UNCHANGED <<mainV, planV, fixV, callV, group_file_sets>>

\* `if not files`: unknown scope, the group is isolated.
BatchIsolate ==
    /\ gidx < Len(group_file_sets)
    /\ group_file_sets[gidx + 1] = {}
    /\ exec_batches' = Append(exec_batches, <<gidx>>)
    /\ gidx' = gidx + 1
    /\ BatchFrame

\* The group is appended to the first batch it is disjoint from.
BatchJoin ==
    /\ gidx < Len(group_file_sets)
    /\ group_file_sets[gidx + 1] # {}
    /\ FirstFit(group_file_sets[gidx + 1]) # 0
    /\ LET i == FirstFit(group_file_sets[gidx + 1]) IN
       exec_batches' = [exec_batches EXCEPT ![i] = Append(@, gidx)]
    /\ gidx' = gidx + 1
    /\ BatchFrame

\* `if not placed`: the group opens a new batch.
BatchOpen ==
    /\ gidx < Len(group_file_sets)
    /\ group_file_sets[gidx + 1] # {}
    /\ FirstFit(group_file_sets[gidx + 1]) = 0
    /\ exec_batches' = Append(exec_batches, <<gidx>>)
    /\ gidx' = gidx + 1
    /\ BatchFrame

NextBatch == BatchIsolate \/ BatchJoin \/ BatchOpen

SpecBatch == InitBatch /\ [][NextBatch]_vars

(***************************************************************************)
(* A parallel batch: _dispatch_fix_group runs in one pool thread per       *)
(* group, each calling dispatch_agent (wait_if_paused, the flag test, the  *)
(* agent subprocess) against the shared mailbox, flag and excerpt files.   *)
(***************************************************************************)
InitFix ==
    /\ InCoordination("co_fix", 1)
    /\ PlanIdle /\ BatchIdle /\ CallIdle
    /\ tpc = [t \in FixThreads |-> "start"]
    /\ tbuf = [t \in FixThreads |-> <<>>]
    /\ staleSpawn = FALSE
    /\ status_sent = [paused |-> 0, resumed |-> 0]

\* What no pool thread touches.
FixFrame ==
    UNCHANGED <<ctlV, buffered, p1V, resV, alV, coV, envV, acPhase2, requeueV,
                roundsSent, planV, batchV, callV, escV, pauseV>>

\* Thread u has taken an alignment_changed message and not yet finished
\* _invalidate_excerpts and _set_alignment_changed_flag for it.
Invalidating(u) ==
    \/ tpc[u] = "inval" /\ excerpts # {}
    \/ tpc[u] \in {"inval", "setflag"} /\ ~flag

\* wait_if_paused: `state = check_pipeline_state(planspace)`.
FxEnter(t) ==
    /\ tpc[t] = "start"
    /\ tpc' = [tpc EXCEPT ![t] = IF pstate = "paused" THEN "loop" ELSE "flagchk"]
    /\ tbuf' = [tbuf EXCEPT ![t] = <<>>]
    /\ status_sent' = IF pstate = "paused"
                      THEN [status_sent EXCEPT !.paused = @ + 1] ELSE status_sent
    /\ UNCHANGED <<mailbox, fileV, sent, abortV, staleSpawn>>
    /\ FixFrame

\* `while check_pipeline_state(planspace) == "paused"`; after the loop the
\* buffered messages are sent back to the scheduler's mailbox.
FxLoop(t) ==
    /\ tpc[t] = "loop"
    /\ IF pstate = "paused"
       THEN /\ tpc' = [tpc EXCEPT ![t] = "recv"]
            /\ UNCHANGED <<mailbox, tbuf, status_sent>>
       ELSE /\ tpc' = [tpc EXCEPT ![t] = "flagchk"]
            /\ mailbox' = Replay(mailbox, tbuf[t])
            /\ tbuf' = [tbuf EXCEPT ![t] = <<>>]
            /\ status_sent' = [status_sent EXCEPT !.resumed = @ + 1]
    /\ UNCHANGED <<fileV, sent, abortV, staleSpawn>>
    /\ FixFrame

\* mailbox_recv(planspace, timeout=5): TIMEOUT, abort (the thread exits),
\* alignment_changed (handled in the next two steps), or a message to buffer.
FxRecv(t) ==
    /\ tpc[t] = "recv"
    /\ IF mailbox = <<>>
       THEN /\ tpc' = [tpc EXCEPT ![t] = "loop"]
            /\ UNCHANGED <<mailbox, tbuf, sent, abortSeen, abortSec>>
       ELSE /\ mailbox' = Tail(mailbox)
            /\ CASE Head(mailbox) = "abort" ->
                      /\ tpc' = [tpc EXCEPT ![t] = "exited"]
                      /\ sent' = sent \cup {FailAborted(NoSection)}
                      /\ abortSeen' = TRUE /\ abortSec' = cur
                      /\ UNCHANGED tbuf
                 [] Head(mailbox) = "alignment_changed" ->
                      /\ tpc' = [tpc EXCEPT ![t] = "inval"]
                      /\ UNCHANGED <<tbuf, sent, abortSeen, abortSec>>
                 [] OTHER ->
                      /\ tpc' = [tpc EXCEPT ![t] = "loop"]
                      /\ tbuf' = [tbuf EXCEPT ![t] = Append(@, Head(mailbox))]
                      /\ UNCHANGED <<sent, abortSeen, abortSec>>
    /\ UNCHANGED <<fileV, lateSpawn, staleSpawn, status_sent>>
    /\ FixFrame

\* _invalidate_excerpts(planspace)
FxInvalidate(t) ==
    /\ tpc[t] = "inval"
    /\ excerpts' = InvalidateExcerpts(excerpts)
    /\ tpc' = [tpc EXCEPT ![t] = "setflag"]
    /\ UNCHANGED <<mailbox, flag, sent, abortV, tbuf, staleSpawn, status_sent>>
    /\ FixFrame

\* _set_alignment_changed_flag(planspace), then `continue`.
FxSetFlag(t) ==
    /\ tpc[t] = "setflag"
    /\ flag' = TRUE
    /\ tpc' = [tpc EXCEPT ![t] = "loop"]
    /\ UNCHANGED <<mailbox, excerpts, sent, abortV, tbuf, staleSpawn, status_sent>>
    /\ FixFrame

\* dispatch_agent: `if alignment_changed_pending(planspace)`.
FxFlagCheck(t) ==
    /\ tpc[t] = "flagchk"
    /\ tpc' = [tpc EXCEPT ![t] = IF flag THEN "sentinel" ELSE "spawn"]
    /\ UNCHANGED <<mailbox, fileV, sent, abortV, tbuf, staleSpawn, status_sent>>
    /\ FixFrame

\* dispatch_agent: subprocess.run starts the agent.
FxSpawn(t) ==
    /\ tpc[t] = "spawn"
    /\ tpc' = [tpc EXCEPT ![t] = "agent"]
    /\ SpawnObs(FALSE)
    /\ staleSpawn' = (staleSpawn \/ \E u \in FixThreads \ {t} : Invalidating(u))
    /\ UNCHANGED <<mailbox, fileV, sent, abortSeen, abortSec, tbuf, status_sent>>
    /\ FixFrame

\* The agent ends and _dispatch_fix_group returns its modified files.
FxReturn(t) ==
    /\ tpc[t] = "agent"
    /\ tpc' = [tpc EXCEPT ![t] = "returned"]
    /\ UNCHANGED <<mailbox, fileV, sent, abortV, tbuf, staleSpawn, status_sent>>
    /\ FixFrame

NextFix ==
    \/ ParentSend \/ SetPipelineState
    \/ \E t \in FixThreads :
        \/ FxEnter(t) \/ FxLoop(t) \/ FxRecv(t) \/ FxInvalidate(t)
        \/ FxSetFlag(t) \/ FxFlagCheck(t) \/ FxSpawn(t) \/ FxReturn(t)

SpecFix == InitFix /\ [][NextFix]_vars

(***************************************************************************)
(* The note id of a consequence note: written by post_section_completion   *)
(* (cross_section.py), acknowledged by the target's agent, recomputed by   *)
(* _collect_outstanding_problems (coordination.py).  SHA-256 is taken as   *)
(* free of collisions: a digest stands for the text it was computed from.  *)
(***************************************************************************)
Sha256(text) == <<"sha256", text>>
\* sha256(f"{note_path.name}:{sha256(content).hexdigest()}").hexdigest()[:12]
NoteId(name, content) == Sha256(<<name, Sha256(content)>>)
\* from-<source>-to-<target>.md
NoteName(a) == <<"from", a.source, "to", a.target>>
\* note_content_draft: heading, contracts, reason, file_changes.
NoteDraft(a) == <<a.source, a.target, a.contracts, a.reason>>
\* The text written to the note file: it embeds the note id next to the
\* fields of the draft.
NoteText(a, id) == <<NoteDraft(a), "Note ID", id>>
\* The id a note file names (and tells its target to acknowledge).
EmbeddedId(text) == text[3]

\* The target's note-ack signal (ack) is absent, names the id the note gave
\* it, or names some other id.
InitNotes ==
    /\ InCoordination("co_plan", 0)
    /\ PlanIdle /\ BatchIdle /\ FixIdle
    /\ call_args \in [source : Sections, target : Sections,
                       contracts : {"", "contracts"}, reason : {"r1", "r2"},
                       aligned : BOOLEAN,
                       ack : {"no_ack", "ack_embedded_id", "ack_other_id"}]
    /\ call_args.source # call_args.target
    /\ call_ret = [stage |-> "start", note |-> <<>>, acks |-> {}, problems |-> {}]

\* What a function taken on its own leaves alone.
CallFrame == UNCHANGED <<mainV, planV, batchV, fixV, call_args>>

\* post_section_completion writes the note file.
NoteWrite ==
    /\ call_ret.stage = "start"
    /\ call_ret' = [call_ret EXCEPT
            !.stage = "written",
            !.note = NoteText(call_args, NoteId(NoteName(call_args), NoteDraft(call_args)))]
    /\ CallFrame

\* The target's agent writes (or does not write) its note-ack signal.
NoteAck ==
    /\ call_ret.stage = "written"
    /\ call_ret' = [call_ret EXCEPT
            !.stage = "acked",
            !.acks = CASE call_args.ack = "ack_embedded_id" -> {EmbeddedId(call_ret.note)}
                       [] call_args.ack = "ack_other_id" -> {Sha256("other")}
                       [] OTHER -> {}]
    /\ CallFrame

\* _collect_outstanding_problems scans the note: the target must be
\* aligned, and the id recomputed from the file must not be acknowledged.
NoteCollect ==
    /\ call_ret.stage = "acked"
    /\ call_ret' = [call_ret EXCEPT
            !.stage = "done",
            !.problems = IF call_args.aligned
                            /\ NoteId(NoteName(call_args), call_ret.note) \notin call_ret.acks
                         THEN {<<"unaddressed_note", call_args.target>>}
                         ELSE {}]
    /\ CallFrame

NextNotes == NoteWrite \/ NoteAck \/ NoteCollect

SpecNotes == InitNotes /\ [][NextNotes]_vars

(***************************************************************************)
(* wait_if_paused of one fix dispatch, entered while the pipeline is       *)
(* paused and messages of the parent are pending; call_args keeps the      *)
(* mailbox as it was when the dispatch began.                              *)
(***************************************************************************)
\* Number of messages pending in the mailbox when it is drained or waited on.
MaxDrained == 3

InitWait ==
    /\ PlanIdle /\ BatchIdle /\ FixIdle
    /\ call_args \in SeqsUpTo(ParentMsgs \cup {"resume:payload"}, MaxDrained)
    /\ call_ret = <<>>
    /\ pc = "co_fix" /\ wait = "none"
    /\ mailbox = call_args /\ buffered = <<>>
    /\ pstate = "paused"
    /\ flag = FALSE /\ excerpts = Sections \X ExcerptKinds
    /\ queue = <<>> /\ completed = Sections /\ cur = NoSection
    /\ related = [s \in Sections |-> TRUE]
    /\ results \in {r \in [Sections -> {SectionResult(FALSE, "text"),
                                         SectionResult(TRUE, "null")}] :
                        Misaligned(r) # {}}
    /\ unacked = {}
    /\ sent = {}
    /\ verdict = "none" /\ attempt = 0 /\ mode = "coord"
    /\ todo = Sorted(Misaligned(results))
    /\ round_num = 1 /\ stall_count = 0
    /\ prev_unresolved = Cardinality(Misaligned(results))
    /\ batches = 1 /\ hashed = {}
    /\ msgsLeft = 0 /\ togglesLeft = MaxToggles
    /\ abortSeen = FALSE /\ abortSec = NoSection /\ lateSpawn = FALSE
    /\ acPhase2 = FALSE
    /\ needEngine = {} /\ needProcess = {} /\ intr = NoSection /\ requeued = FALSE
    /\ roundsSent = {1}
    /\ escalation_file = FALSE /\ fix_model = "none" /\ escalation_round = 0
    /\ unresumed = NoSection

NextWait ==
    \/ SetPipelineState
    \/ WaitIfPausedEnter \/ WaitIfPausedRecv \/ WaitIfPausedResume
    \/ CoFix

SpecWait == InitWait /\ [][NextWait]_vars

(***************************************************************************)
(* poll_control_messages (pipeline_control.py) over one drained mailbox.   *)
(***************************************************************************)
InitPoll ==
    /\ InCoordination("co_plan", 0)
    /\ PlanIdle /\ BatchIdle /\ FixIdle
    /\ call_args \in SeqsUpTo(ParentMsgs \cup {"resume:payload"}, MaxDrained)
    /\ call_ret = [done |-> FALSE, abort |-> FALSE, ac |-> FALSE, replay |-> <<>>]

\* msgs = mailbox_drain(planspace), the loop over msgs and the return.
PollCall ==
    /\ ~call_ret.done
    /\ call_ret' = [done |-> TRUE, abort |-> PollControl(call_args).abort,
                     ac |-> PollControl(call_args).ac,
                     replay |-> PollControl(call_args).replay]
    /\ CallFrame

SpecPoll == InitPoll /\ [][PollCall]_vars

(***************************************************************************)
(* Validation of the reported modifications at the end of run_section      *)
(* (section_engine.py): one call over a codespace whose files are known by *)
(* their content before and after the implementation.  The sorted list the *)
(* code returns is kept as the set of its elements.                        *)
(***************************************************************************)
\* Files of the codespace and the contents a file can have.
MaxPaths == 2
Paths == 1..MaxPaths
MaxContents == 2
Missing == 0
Contents == {Missing} \cup (1..MaxContents)

\* hash_file: the empty digest for a missing file.
hash_file(content) == IF content = Missing THEN <<>> ELSE Sha256(content)

\* snapshot_files: {rel_path: hash}.
snapshot_files(disk, rel_paths) == [rp \in rel_paths |-> hash_file(disk[rp])]

\* diff_files: the files of `reported` whose hash differs from before.get(rp, "").
diff_files(disk, before, reported) ==
    {rp \in reported :
        hash_file(disk[rp]) # (IF rp \in DOMAIN before THEN before[rp] ELSE <<>>)}

\* Only the reported files are diffed.
snapshotted_candidates_reported(related_files, reported, pre_hashes) ==
    reported \cap DOMAIN pre_hashes

\* snapshotted_set | (set(reported) & set(pre_hashes))
snapshotted_candidates(related_files, reported, pre_hashes) ==
    related_files \cup (reported \cap DOMAIN pre_hashes)

\* actually_changed, from the snapshot taken before the implementation
\* (disk = pre) and the files as the implementation left them (disk = post).
actually_changed(related_files, reported, pre, post) ==
    LET pre_hashes == snapshot_files(pre, related_files)
        verified_changed ==
            diff_files(post, pre_hashes,
                       snapshotted_candidates(related_files, reported, pre_hashes))
        unsnapshotted_reported ==
            {rp \in reported : rp \notin DOMAIN pre_hashes /\ post[rp] # Missing}
    IN verified_changed \cup unsnapshotted_reported

InitModified ==
    /\ InCoordination("co_plan", 0)
    /\ PlanIdle /\ BatchIdle /\ FixIdle
    /\ call_args \in [related_files : SUBSET Paths, reported : SUBSET Paths,
                      pre : [Paths -> Contents], post : [Paths -> Contents]]
    /\ call_ret = [done |-> FALSE, changed |-> {}]

\* The validation block of run_section and its return.
ValidateModified ==
    /\ ~call_ret.done
    /\ call_ret' = [done |-> TRUE,
                    changed |-> actually_changed(call_args.related_files,
                                                 call_args.reported,
                                                 call_args.pre, call_args.post)]
    /\ CallFrame

SpecModified == InitModified /\ [][ValidateModified]_vars

(***************************************************************************)
(* The report of modified files, read by collect_modified_files            *)
(* (alignment.py) and by _dispatch_fix_group (coordination.py).  A path is *)
(* the list of its components; the file system holds the codespace /cs,    *)
(* a directory /out next to it and, inside the codespace, a symbolic link  *)
(* ln to /out.                                                             *)
(***************************************************************************)
\* Lines of a report and components of a reported path.
MaxLines == 2
MaxParts == 2
PathParts == {"a", "..", "cs", "out", "ln"}
\* codespace.resolve()
codespace_resolved == <<"cs">>
\* A line of the report: Path(line).is_absolute() and the components.
ReportLines == [is_absolute : BOOLEAN, parts : SeqsUpTo(PathParts, MaxParts)]

\* Path.resolve() of an absolute path: `..` leaves the directory reached so
\* far (the root is its own parent) and the symbolic link is followed.
RECURSIVE resolve(_, _)
resolve(at, parts) ==
    IF parts = <<>> THEN at
    ELSE LET c == Head(parts)
             to == IF c = ".."
                   THEN (IF at = <<>> THEN <<>> ELSE SubSeq(at, 1, Len(at) - 1))
                   ELSE IF c = "ln" /\ at = codespace_resolved THEN <<"out">>
                   ELSE Append(at, c)
         IN resolve(to, Tail(parts))

IsUnder(full, root) ==
    Len(full) >= Len(root) /\ SubSeq(full, 1, Len(root)) = root

\* The path is joined to the codespace without being resolved.
full_path_unresolved(pp) ==
    IF pp.is_absolute THEN pp.parts ELSE codespace_resolved \o pp.parts
\* pp.resolve() for an absolute line, (codespace / pp).resolve() otherwise.
full_path(pp) ==
    IF pp.is_absolute THEN resolve(<<>>, pp.parts)
    ELSE resolve(codespace_resolved, pp.parts)

\* full.relative_to(codespace_resolved): ValueError ("skip") when the path
\* is not under the codespace.
relative_to(full, root) ==
    IF IsUnder(full, root) THEN SubSeq(full, Len(root) + 1, Len(full)) ELSE "skip"

\* The loop over the lines of the report, as _dispatch_fix_group keeps its
\* result (a list); collect_modified_files keeps the set of its elements.
RECURSIVE parse_report(_)
parse_report(lines) ==
    IF lines = <<>> THEN <<>>
    ELSE LET full == full_path(Head(lines)) IN
         IF IsUnder(full, codespace_resolved)
         THEN <<relative_to(full, codespace_resolved)>> \o parse_report(Tail(lines))
         ELSE parse_report(Tail(lines))

InitReport ==
    /\ InCoordination("co_plan", 0)
    /\ PlanIdle /\ BatchIdle /\ FixIdle
    /\ call_args \in SeqsUpTo(ReportLines, MaxLines)
    /\ call_ret = [done |-> FALSE, modified |-> <<>>, collected |-> {}]

ReadReport ==
    /\ ~call_ret.done
    /\ call_ret' = [done |-> TRUE, modified |-> parse_report(call_args),
                    collected |-> Range(parse_report(call_args))]
    /\ CallFrame

SpecReport == InitReport /\ [][ReadReport]_vars

(***************************************************************************)
(* read_agent_signal (section-loop.py) over one signal file.               *)
(***************************************************************************)
\* The states an agent can write into a signal file, in the case the code
\* compares them in (data.get("state", "").lower()), and a state that is
\* none of them.
SignalStates ==
    {"underspecified", "need_decision", "dependency", "loop_detected",
     "needs_parent", "out_of_scope"}
\* The texts a field of the file can hold ("": absent or empty).
FieldTexts == {"", "t"}
\* What a signal file can be: absent, not JSON, JSON that is not an object,
\* or an object with these fields.
SignalFiles ==
    [kind : {"absent", "not_json", "not_object"}]
    \cup [kind : {"object"}, state : SignalStates \cup {"unknown"},
          detail : FieldTexts, needs : FieldTexts,
          assumptions_refused : FieldTexts,
          suggested_escalation_target : FieldTexts]

\* extras, then f"{detail} [{'; '.join(extras)}]": the text is kept as the
\* list of its parts.
Enriched(data) ==
    LET extras ==
            (IF data.needs # "" THEN <<<<"Needs", data.needs>>>> ELSE <<>>)
            \o (IF data.assumptions_refused # ""
                THEN <<<<"Refused assumptions", data.assumptions_refused>>>> ELSE <<>>)
            \o (IF data.suggested_escalation_target # ""
                THEN <<<<"Escalation target", data.suggested_escalation_target>>>>
                ELSE <<>>)
    IN IF extras = <<>> THEN <<data.detail>> ELSE <<data.detail>> \o extras

\* The chain of `if state in (...)` and the final `return None, ""`.
SignalType(state) ==
    CASE state = "underspecified" -> "underspec"
      [] state \in {"need_decision", "dependency", "loop_detected"} -> state
      [] OTHER -> "None"

\* read_agent_signal: (signal_type, detail), or the exception that leaves it.
read_agent_signal(file) ==
    CASE file.kind = "absent" -> [signal |-> "None", detail |-> <<"">>, raised |-> "no"]
      [] file.kind = "not_json" -> [signal |-> "None", detail |-> <<"">>, raised |-> "no"]
      [] file.kind = "not_object" ->
            [signal |-> "None", detail |-> <<"">>, raised |-> "AttributeError"]
      [] OTHER ->
            IF SignalType(file.state) = "None"
            THEN [signal |-> "None", detail |-> <<"">>, raised |-> "no"]
            ELSE [signal |-> SignalType(file.state), detail |-> Enriched(file),
                  raised |-> "no"]

InitSignal ==
    /\ InCoordination("co_plan", 0)
    /\ PlanIdle /\ BatchIdle /\ FixIdle
    /\ call_args \in SignalFiles
    /\ call_ret = [done |-> FALSE]

ReadSignal ==
    /\ ~call_ret.done
    /\ call_ret' = [done |-> TRUE, sig |-> read_agent_signal(call_args)]
    /\ CallFrame

SpecSignal == InitSignal /\ [][ReadSignal]_vars

(***************************************************************************)
(* _run_alignment_check_with_retries (alignment.py) taken on its own, with *)
(* the assignment its caller makes from what it returns.  The arguments    *)
(* are what the successive iterations meet: the control message found by   *)
(* the poll and the output of the judge.                                   *)
(***************************************************************************)
\* Iterations whose poll result and judge output are given.
MaxIterations == 4
PollResults == {"none", "alignment_changed", "abort"}
JudgeOutputs == {"timeout", "badframe", "result"}
JudgeScripts == [1..MaxIterations -> [ctrl : PollResults, out : JudgeOutputs]]

\* A loop with one more iteration.
attempt_range_longer == 1..(max_retries + 2)
\* range(1, max_retries + 2)
attempt_range == 1..(max_retries + 1)

TimedOutProblems == "alignment check timed out after retries"

InitAlign ==
    /\ InCoordination("co_recheck", 0)
    /\ PlanIdle /\ BatchIdle /\ FixIdle
    /\ call_args \in JudgeScripts
    /\ call_ret = [attempt |-> 0, dispatches |-> 0, ret |-> "running",
                   result |-> NoResult]

\* One iteration of the `for attempt` loop: the poll, the dispatch and the
\* look at its result.
AlignIterate ==
    /\ call_ret.ret = "running" /\ call_ret.attempt + 1 \in attempt_range
    /\ LET n == call_ret.attempt + 1
           e == call_args[n] IN
       call_ret' =
           IF e.ctrl = "abort"
           THEN [call_ret EXCEPT !.attempt = n, !.ret = "exit"]
           ELSE IF e.ctrl = "alignment_changed"
           THEN [call_ret EXCEPT !.attempt = n, !.ret = "ALIGNMENT_CHANGED_PENDING"]
           ELSE IF e.out = "result"
           THEN [call_ret EXCEPT !.attempt = n, !.dispatches = @ + 1, !.ret = "result"]
           ELSE [call_ret EXCEPT !.attempt = n, !.dispatches = @ + 1]
    /\ CallFrame

\* The loop is over: `return None`.
AlignExhausted ==
    /\ call_ret.ret = "running" /\ call_ret.attempt + 1 \notin attempt_range
    /\ call_ret' = [call_ret EXCEPT !.ret = "None"]
    /\ CallFrame

\* `if align_result is None:` in the caller.
AlignCaller ==
    /\ call_ret.ret = "None" /\ ~call_ret.result.present
    /\ call_ret' = [call_ret EXCEPT !.result = SectionResult(FALSE, TimedOutProblems)]
    /\ CallFrame

NextAlign == AlignIterate \/ AlignExhausted \/ AlignCaller

SpecAlign == InitAlign /\ [][NextAlign]_vars

(***************************************************************************)
(* Phase 1 over sections without related files, with the output of the     *)
(* re-explorer given.                                                      *)
(***************************************************************************)
InitExplore ==
    /\ InitLoop
    /\ related = [s \in Sections |-> FALSE]
    /\ call_args \in ReexploreOutputs /\ call_ret = <<>>

ReexploreCall == ReexploreResult(call_args)

NextExplore ==
    \/ ParentSend \/ SetPipelineState
    \/ WaitIfPausedEnter \/ WaitIfPausedRecv \/ WaitIfPausedResume
    \/ P1Top \/ ReexploreCall

SpecExplore == InitExplore /\ [][NextExplore]_vars

(***************************************************************************)
(* run_section (section_engine.py) for one section taken on its own, and   *)
(* what _run_loop does after it when that section is the only one, with    *)
(* every message sent to the parent kept in order.  call_args says what    *)
(* the run starts from; call_ret holds the locals of run_section, the      *)
(* messages sent so far and what has been observed of the run.  What the   *)
(* agents, the parent and the control plane do is chosen at each step.     *)
(***************************************************************************)
\* Agent dispatches (workers and judges) in one run.
MaxDispatches == 8
\* Signals that check_agent_signals can return after a judge, and after a
\* worker (where every signal pauses and only the two that are recorded as
\* open problems differ from the others).
EngineSignals == {"underspec", "need_decision", "dependency", "out_of_scope"}
WorkerSignals == {"need_decision", "out_of_scope"}
\* What the parent answers to a pause; "resume_changed": a resume after an
\* alignment_changed was consumed by pause_for_parent.
PauseResponses == {"resume", "resume_changed", "other", "abort"}
\* What handle_pending_messages finds at the top of a loop.
LoopControls == {"none", "abort", "alignment_changed"}

\* proposal_problems / impl_problems: None, the text set after a judge
\* timeout, or the problems of the verdict of attempt k.
NoProblems == [text |-> "None", attempt |-> 0]
TimeoutProblems == [text |-> "Previous alignment check timed out.", attempt |-> 0]
VerdictProblems(k) == [text |-> "problems", attempt |-> k]

EngineStart(args) ==
    [pc |-> IF args.excerpts THEN "proposal" ELSE "setup",
     sent |-> <<>>,
     proposal_attempt |-> 0, impl_attempt |-> 0,
     proposal_problems |-> NoProblems, impl_problems |-> NoProblems,
     signal |-> "None",
     \* observations
     dispatches |-> 0, proposer_dispatches |-> 0, impl_dispatches |-> 0,
     judge_dispatches |-> 0, judge_timeouts |-> 0,
     fed |-> NoProblems,
     proposal_aligned |-> FALSE, impl_aligned |-> FALSE,
     clean |-> TRUE]

InitEngine ==
    /\ InCoordination("co_plan", 0)
    /\ PlanIdle /\ BatchIdle /\ FixIdle
    /\ call_args \in [excerpts : BOOLEAN, needs_microstrategy : BOOLEAN]
    /\ call_ret = EngineStart(call_args)

\* mailbox_send(planspace, parent, ...) of each message of msgs.
Send(e, msgs) == [e EXCEPT !.sent = @ \o msgs]
\* `return None`
ReturnNone(e) == [e EXCEPT !.pc = "returned_none", !.clean = FALSE]

\* pause_for_parent and the lines after it: the pause message, the answer,
\* the flag test, `continue`.
PauseThenContinue(e, sig, resp, back) ==
    LET e1 == Send([e EXCEPT !.clean = FALSE, !.signal = sig], <<Msg("pause", 1)>>) IN
    CASE resp = "abort" -> [Send(e1, <<Msg("fail:aborted", 0)>>) EXCEPT !.pc = "exit"]
      [] resp = "resume" -> [e1 EXCEPT !.pc = back]
      [] OTHER -> ReturnNone(e1)

\* The open-problem message of the setup and proposal stages.
OpenProblem(sig) ==
    IF sig = "out_of_scope" THEN <<Msg("open-problem", 1)>> ELSE <<>>

\* Step 1: one pass of the setup loop.
\*   out: "pending" (ALIGNMENT_CHANGED_PENDING), "ok" (both excerpts exist
\*   afterwards), "failed" (an excerpt is missing).
EngSetup ==
    /\ call_ret.pc = "setup" /\ call_ret.dispatches < MaxDispatches
    /\ \E out \in {"pending", "ok", "failed"}, sig \in {"None"} \cup WorkerSignals,
          resp \in PauseResponses :
         call_ret' =
            IF out = "pending" THEN ReturnNone(call_ret)
            ELSE LET e1 == Send([call_ret EXCEPT !.dispatches = @ + 1, !.signal = sig],
                                <<Msg("summary:setup", 1)>>) IN
                 IF sig # "None"
                 THEN PauseThenContinue(Send(e1, OpenProblem(sig)), sig, resp, "setup")
                 ELSE IF out = "failed"
                 THEN ReturnNone(Send(e1, <<Msg("fail:setup failed", 1)>>))
                 ELSE [e1 EXCEPT !.pc = "proposal"]
    /\ CallFrame

\* The top of `while True` in steps 2 and 3: handle_pending_messages and the
\* flag test; "go" when the iteration goes on.
LoopTop(e, ctl) ==
    CASE ctl = "abort" -> ReturnNone(Send(e, <<Msg("fail:aborted", 1)>>))
      [] ctl = "alignment_changed" -> ReturnNone(e)
      [] OTHER -> e

\* Step 2a: the top of the proposal loop and the proposer.
\*   out: "pending", "timeout", "ok" (the proposal exists afterwards),
\*   "failed" (it does not).
EngPropose ==
    /\ call_ret.pc = "proposal" /\ call_ret.dispatches < MaxDispatches
    /\ \E ctl \in LoopControls, out \in {"pending", "timeout", "ok", "failed"},
          sig \in {"None"} \cup WorkerSignals, resp \in PauseResponses :
         call_ret' =
            IF ctl # "none" THEN LoopTop(call_ret, ctl)
            ELSE LET e0 == [call_ret EXCEPT !.proposal_attempt = @ + 1] IN
            IF out = "pending" THEN ReturnNone(e0)
            ELSE LET e1 == Send([e0 EXCEPT !.dispatches = @ + 1,
                                           !.proposer_dispatches = @ + 1,
                                           !.fed = e0.proposal_problems],
                                <<Msg("summary:proposal", 1)>>) IN
                 IF out = "timeout"
                 THEN ReturnNone(Send(e1, <<Msg("fail:proposal timed out", 1)>>))
                 ELSE IF sig # "None"
                 THEN PauseThenContinue(Send(e1, OpenProblem(sig)), sig, resp, "proposal")
                 ELSE IF out = "failed"
                 THEN ReturnNone(Send(e1, <<Msg("fail:proposal not written", 1)>>))
                 ELSE [e1 EXCEPT !.pc = "proposal_align", !.signal = sig]
    /\ CallFrame

\* Every verdict leaves the loop.
AfterVerdictAlwaysOn(problems, top, next) == next
\* `if problems is None: ... break`, else the next attempt.
AfterVerdict(problems, top, next) == IF problems = NoProblems THEN next ELSE top

\* Steps 2b-2d and 3b-3d: the alignment judge of a loop and what the loop
\* does with its result.
\*   out: "pending", "timeout", "aligned" (problems is None), "problems".
JudgeResult(e, stage, out, sig, resp, top, next) ==
    IF out = "pending" THEN ReturnNone(e)
    ELSE LET e1 == [e EXCEPT !.dispatches = @ + 1, !.judge_dispatches = @ + 1] IN
    IF out = "timeout"
    THEN IF stage = "proposal"
         THEN [e1 EXCEPT !.pc = top, !.proposal_problems = TimeoutProblems,
                         !.judge_timeouts = @ + 1, !.clean = FALSE]
         ELSE [e1 EXCEPT !.pc = top, !.impl_problems = TimeoutProblems,
                         !.judge_timeouts = @ + 1, !.clean = FALSE]
    ELSE LET e2 == [e1 EXCEPT !.judge_timeouts = 0, !.signal = sig,
                              !.clean = @ /\ sig = "None" /\ out = "aligned"]
             nth == IF stage = "proposal" THEN e.proposal_attempt ELSE e.impl_attempt
             problems == IF out = "aligned" THEN NoProblems ELSE VerdictProblems(nth)
         IN
         IF sig = "underspec" THEN PauseThenContinue(e2, "underspec", resp, top)
         ELSE IF problems = NoProblems
         THEN LET e3 == Send(e2, <<Msg("summary:" \o stage \o "-align:ALIGNED", 1)>>) IN
              IF stage = "proposal"
              THEN [e3 EXCEPT !.pc = AfterVerdict(problems, top, next),
                              !.proposal_aligned = TRUE]
              ELSE [e3 EXCEPT !.pc = AfterVerdict(problems, top, next),
                              !.impl_aligned = TRUE]
         ELSE LET e3 == Send(e2, <<Msg("summary:" \o stage \o "-align:PROBLEMS-attempt",
                                       nth)>>) IN
              IF stage = "proposal"
              THEN [e3 EXCEPT !.pc = AfterVerdict(problems, top, next),
                              !.proposal_problems = problems]
              ELSE [e3 EXCEPT !.pc = AfterVerdict(problems, top, next),
                              !.impl_problems = problems]

EngProposalAlign ==
    /\ call_ret.pc = "proposal_align" /\ call_ret.dispatches < MaxDispatches
    /\ \E out \in {"pending", "timeout", "aligned", "problems"},
          sig \in {"None"} \cup EngineSignals, resp \in PauseResponses :
         call_ret' = JudgeResult(call_ret, "proposal", out, sig, resp,
                                 "proposal", "microstrategy")
    /\ CallFrame

\* Step 2.5: the microstrategy, when the proposal asks for one.
EngMicrostrategy ==
    /\ call_ret.pc = "microstrategy" /\ call_ret.dispatches < MaxDispatches
    /\ \E ctl \in LoopControls, out \in {"pending", "ok"} :
         call_ret' =
            IF ~call_args.needs_microstrategy THEN [call_ret EXCEPT !.pc = "impl"]
            ELSE IF ctl = "abort"
            THEN [Send(call_ret, <<Msg("fail:aborted", 1)>>) EXCEPT !.pc = "exit"]
            ELSE IF ctl = "alignment_changed" \/ out = "pending"
            THEN ReturnNone(call_ret)
            ELSE Send([call_ret EXCEPT !.pc = "impl", !.dispatches = @ + 1],
                      <<Msg("summary:microstrategy", 1)>>)
    /\ CallFrame

\* Step 3a: the top of the implementation loop and the implementer.
EngImplement ==
    /\ call_ret.pc = "impl" /\ call_ret.dispatches < MaxDispatches
    /\ \E ctl \in LoopControls, out \in {"pending", "timeout", "ok"},
          sig \in {"None"} \cup WorkerSignals, resp \in PauseResponses :
         call_ret' =
            IF ctl # "none" THEN LoopTop(call_ret, ctl)
            ELSE LET e0 == [call_ret EXCEPT !.impl_attempt = @ + 1] IN
            IF out = "pending" THEN ReturnNone(e0)
            ELSE LET e1 == Send([e0 EXCEPT !.dispatches = @ + 1,
                                           !.impl_dispatches = @ + 1],
                                <<Msg("summary:impl", 1)>>) IN
                 IF out = "timeout"
                 THEN ReturnNone(Send(e1, <<Msg("fail:implementation timed out", 1)>>))
                 ELSE IF sig # "None"
                 THEN PauseThenContinue(e1, sig, resp, "impl")
                 ELSE [e1 EXCEPT !.pc = "impl_align", !.signal = sig]
    /\ CallFrame

EngImplAlign ==
    /\ call_ret.pc = "impl_align" /\ call_ret.dispatches < MaxDispatches
    /\ \E out \in {"pending", "timeout", "aligned", "problems"},
          sig \in {"None"} \cup EngineSignals, resp \in PauseResponses :
         call_ret' = JudgeResult(call_ret, "impl", out, sig, resp, "impl", "post")
    /\ CallFrame

\* No `done` message.
done_message_omitted(n) == <<>>
\* done:<section>:<n> files modified
done_message(n) == <<Msg("done", n)>>

\* The validation of the modified files and step 4, then _run_loop: the
\* `done` message and the section's result.
EngComplete ==
    /\ call_ret.pc = "post"
    /\ \E n \in 0..MaxPaths :
         call_ret' = [Send(call_ret, done_message(n)) EXCEPT !.pc = "sweep"]
    /\ CallFrame

\* Phase 2 with this one section: the sweep's alignment check, the final
\* poll and `complete`.
\*   out: what the sweep found: "aligned", or something else ("other": a
\*   control message, a timeout, problems or a signal).
EngPhase2 ==
    /\ call_ret.pc = "sweep"
    /\ \E out \in {"aligned", "other"} :
         call_ret' =
            IF out = "aligned"
            THEN [Send(call_ret, <<Complete>>) EXCEPT !.pc = "done"]
            ELSE [call_ret EXCEPT !.pc = "phase2", !.clean = FALSE]
    /\ CallFrame

NextEngine ==
    \/ EngSetup \/ EngPropose \/ EngProposalAlign \/ EngMicrostrategy
    \/ EngImplement \/ EngImplAlign \/ EngComplete \/ EngPhase2

SpecEngine == InitEngine /\ [][NextEngine]_vars

(***************************************************************************)
(* The Phase 1 loop of _run_loop with its lifecycle log.  A call of        *)
(* _reexplore_section or run_section is taken by its outcome: what it      *)
(* returned, whether the alignment_changed flag was set meanwhile, or that *)
(* the process left through sys.exit(0) on an abort (wait_if_paused,       *)
(* pause_for_parent, poll_control_messages).                               *)
(***************************************************************************)
\* Lifecycle events the loop may log in one run.
MaxLifecycle == 6

\* What handle_pending_messages found at the top of an iteration.
PendingKinds == {"abort", "alignment_changed", "nothing"}
\* What _reexplore_section left: the sentinel with the flag pending, files
\* appended to the section, no files, or the process exited.
ReexploreKinds == {"pending", "found", "nofiles", "exit"}
\* What run_section did: its return value (or the exit) and the flag.
RunOutcomes == [ret : {"files", "none", "exit"}, ac : BOOLEAN]

InitLife ==
    /\ InCoordination("co_plan", 0) /\ PlanIdle /\ BatchIdle /\ FixIdle
    /\ call_args \in [Sections -> BOOLEAN]
    /\ call_ret = [pc |-> "top", queue |-> SectionOrder, completed |-> {},
                   sec |-> NoSection, related |-> call_args, lifecycle |-> <<>>,
                   flag |-> FALSE]

\* `db.sh log ... lifecycle <tag>:section:<sec_num>`
LogLifecycle(l, tag, sec) == [l EXCEPT !.lifecycle = Append(@, Msg(tag, sec))]

\* The completed sections go back to the queue, the current one in front.
RequeueWithCurrent(l) ==
    {[l EXCEPT !.queue = InsertFront(q2, l.sec), !.completed = {}, !.flag = FALSE,
               !.pc = "top"] : q2 \in Requeue(l.queue, l.completed)}

\* One iteration of `while queue` up to the start event.
LifeTop ==
    /\ call_ret.pc = "top"
    /\ IF call_ret.queue = <<>>
       THEN call_ret' = [call_ret EXCEPT !.pc = "phase2"]
       ELSE \E h \in PendingKinds :
              CASE h = "abort" -> call_ret' = [call_ret EXCEPT !.pc = "exit"]
                [] h = "alignment_changed" \/ call_ret.flag ->
                     \E q2 \in Requeue(call_ret.queue, call_ret.completed) :
                        call_ret' = [call_ret EXCEPT !.queue = q2, !.completed = {},
                                                     !.flag = FALSE]
                [] OTHER ->
                     LET sec == Head(call_ret.queue)
                         popped == [call_ret EXCEPT !.queue = Tail(@)] IN
                     IF sec \in call_ret.completed
                     THEN call_ret' = popped
                     ELSE /\ Len(call_ret.lifecycle) < MaxLifecycle - 1
                          /\ call_ret' =
                               [LogLifecycle(popped, "start", sec) EXCEPT
                                   !.sec = sec,
                                   !.pc = IF call_ret.related[sec] THEN "run_section"
                                          ELSE "reexplore"]
    /\ CallFrame

\* `if not section.related_files:` the re-explorer and what follows it.
LifeReexplore ==
    /\ call_ret.pc = "reexplore"
    /\ \E out \in ReexploreKinds :
         CASE out = "exit" -> call_ret' = [call_ret EXCEPT !.pc = "exit"]
           [] out = "pending" -> call_ret' \in RequeueWithCurrent(call_ret)
           [] out = "found" ->
                call_ret' = [call_ret EXCEPT !.related[call_ret.sec] = TRUE,
                                             !.pc = "run_section"]
           [] OTHER ->
                call_ret' = [LogLifecycle(call_ret, "end", call_ret.sec) EXCEPT
                               !.completed = @ \cup {call_ret.sec}, !.pc = "top"]
    /\ CallFrame

\* run_section returned (or did not) and the rest of the iteration.
LifeRunSection ==
    /\ call_ret.pc = "run_section"
    /\ \E o \in RunOutcomes :
         CASE o.ret = "exit" -> call_ret' = [call_ret EXCEPT !.pc = "exit"]
           [] o.ret # "exit" /\ o.ac -> call_ret' \in RequeueWithCurrent(call_ret)
           [] o.ret = "none" /\ ~o.ac ->
                call_ret' = [LogLifecycle(call_ret, "end", call_ret.sec) EXCEPT
                               !.pc = "exit"]
           [] OTHER ->
                call_ret' = [LogLifecycle(call_ret, "end", call_ret.sec) EXCEPT
                               !.completed = @ \cup {call_ret.sec}, !.pc = "top"]
    /\ CallFrame

NextLife == LifeTop \/ LifeReexplore \/ LifeRunSection

SpecLife == InitLife /\ [][NextLife]_vars

(***************************************************************************)
(* One round of run_global_coordination by its dispatches: the planner,    *)
(* the execution batches (built by the batch steps above), the bridge and  *)
(* fix agents of each batch, the re-check pass and the return to the       *)
(* coordinator loop.  An agent runs from the moment dispatch_agent starts  *)
(* its subprocess until subprocess.run returns.                            *)
(***************************************************************************)
\* Groups of the round.
MaxPoolGroups == 5
\* ThreadPoolExecutor(max_workers=4)
max_workers == 4

\* The files group g (numbered from 0) may name: none, a file of its own,
\* and file 1, which the groups may share.
PoolScopes == {"unknown", "own", "shared"}
PoolFileSet(g, scope) ==
    CASE scope = "unknown" -> {}
      [] scope = "own" -> {g + 1}
      [] OTHER -> {1, g + 1}

\* The main thread's position and the agents of the round.
PoolStart ==
    [pc |-> "plan", k |-> 0, planner |-> "none", bridge |-> "none",
     queued |-> {}, running |-> {}, started |-> {}, returned |-> {},
     sentinel_hit |-> FALSE, judge |-> "none", rechecked |-> FALSE]

InitPool ==
    /\ InCoordination("co_plan", 0) /\ PlanIdle /\ FixIdle
    /\ \E n \in 1..MaxPoolGroups : \E scope \in [1..n -> PoolScopes] :
         group_file_sets = [i \in 1..n |-> PoolFileSet(i - 1, scope[i])]
    /\ gidx = 0 /\ exec_batches = <<>>
    /\ call_args = <<>> /\ call_ret = PoolStart

\* Step 2: the planner is dispatched; with the flag pending no agent starts
\* and the round returns False.
PoolPlanDispatch ==
    /\ call_ret.pc = "plan" /\ call_ret.planner = "none"
    /\ \E pending \in BOOLEAN :
         call_ret' = IF pending THEN [call_ret EXCEPT !.pc = "ret_false"]
                     ELSE [call_ret EXCEPT !.planner = "running"]
    /\ CallFrame

PoolPlanReturn ==
    /\ call_ret.pc = "plan" /\ call_ret.planner = "running"
    /\ call_ret' = [call_ret EXCEPT !.planner = "returned", !.pc = "batches"]
    /\ CallFrame

\* Step 3: the batches are built from the confirmed groups.
PoolBuildBatches == call_ret.pc = "batches" /\ (BatchIsolate \/ BatchJoin \/ BatchOpen)

\* Top of `for batch_num, batch in enumerate(batches)`; after the last
\* batch the re-check pass starts.
PoolBatchTop ==
    /\ call_ret.pc \in {"batches", "batch_top"}
    /\ gidx = Len(group_file_sets)
    /\ IF call_ret.k = Len(exec_batches)
       THEN call_ret' = [call_ret EXCEPT !.pc = "recheck"]
       ELSE \E ctrl \in {"alignment_changed", "none"}, friction \in BOOLEAN :
              call_ret' =
                 IF ctrl = "alignment_changed" THEN [call_ret EXCEPT !.pc = "ret_false"]
                 ELSE [call_ret EXCEPT !.k = @ + 1,
                                       !.pc = IF friction THEN "bridge" ELSE "fix"]
    /\ CallFrame

\* The bridge agent of the batch, run to its end by the main thread.
PoolBridge ==
    /\ call_ret.pc = "bridge"
    /\ call_ret' = IF call_ret.bridge = "running"
                   THEN [call_ret EXCEPT !.bridge = "none", !.pc = "fix"]
                   ELSE [call_ret EXCEPT !.bridge = "running"]
    /\ CallFrame

\* `if len(batch) == 1` the main thread calls _dispatch_fix_group itself,
\* else every group of the batch is submitted to the pool.
PoolSubmit ==
    /\ call_ret.pc = "fix"
    /\ LET batch == exec_batches[call_ret.k] IN
       call_ret' = [call_ret EXCEPT !.queued = Range(batch),
                                    !.pc = IF Len(batch) = 1 THEN "single" ELSE "pool"]
    /\ CallFrame

\* The pool hands a queued call to a thread whatever the number running.
WorkerAlwaysFree(e) == TRUE
\* The pool runs at most max_workers calls at a time.
WorkerFree(e) == Cardinality(e.running) < max_workers

\* The pool is left without waiting for the running calls.
AllDoneNotAwaited(e) == e.queued = {}
\* Every call of the batch has returned: the direct call did, or
\* as_completed and the exit of the `with` block have seen every future.
AllDone(e) == e.queued = {} /\ e.running = {}

\* A free worker (or the main thread for a single group) takes a group:
\* dispatch_agent starts the fix agent, or returns the sentinel.
PoolFixStart ==
    /\ call_ret.pc \in {"single", "pool"}
    /\ WorkerFree(call_ret)
    /\ \E g \in call_ret.queued, pending \in BOOLEAN :
         call_ret' =
            IF pending
            THEN [call_ret EXCEPT !.queued = @ \ {g}, !.sentinel_hit = TRUE]
            ELSE [call_ret EXCEPT !.queued = @ \ {g}, !.running = @ \cup {g},
                                  !.started = @ \cup {g}]
    /\ CallFrame

\* subprocess.run returns in the thread of group g.
PoolFixReturn ==
    /\ call_ret.pc \in {"single", "pool"}
    /\ \E g \in call_ret.running :
         call_ret' = [call_ret EXCEPT !.running = @ \ {g}, !.returned = @ \cup {g}]
    /\ CallFrame

\* The call returned, or the `with` block of the pool is left: every
\* submitted future is done.
PoolJoin ==
    /\ call_ret.pc \in {"single", "pool"}
    /\ AllDone(call_ret)
    /\ call_ret' = [call_ret EXCEPT !.pc = IF call_ret.sentinel_hit THEN "ret_false"
                                           ELSE "batch_top"]
    /\ CallFrame

\* Step 4: the alignment judge is dispatched for the affected sections,
\* one call after the other; then the round returns to the coordinator
\* loop, whose next iteration collects the problems again.
PoolRecheck ==
    /\ call_ret.pc = "recheck"
    /\ \/ /\ call_ret.judge = "none"
          /\ \E more \in BOOLEAN :
               call_ret' = IF more THEN [call_ret EXCEPT !.judge = "running"]
                           ELSE [call_ret EXCEPT !.pc = "collect", !.rechecked = TRUE]
       \/ /\ call_ret.judge = "running"
          /\ call_ret' = [call_ret EXCEPT !.judge = "none"]
    /\ CallFrame

NextPool ==
    \/ PoolPlanDispatch \/ PoolPlanReturn \/ PoolBuildBatches \/ PoolBatchTop
    \/ PoolBridge \/ PoolSubmit \/ PoolFixStart \/ PoolFixReturn \/ PoolJoin
    \/ PoolRecheck

SpecPool == InitPool /\ [][NextPool]_vars

(***************************************************************************)
(* run_global_coordination, Step 4, for one affected section over          *)
(* successive coordinator rounds: the inputs hash, the stored hash file    *)
(* and the alignment re-check.  Between two rounds the fix agents and the  *)
(* sections may rewrite any of the hashed inputs.                          *)
(***************************************************************************)
\* Coordinator rounds, incoming notes and coordinator-modified files.
MaxRecheckRounds == 2
MaxNotes == 2
MaxModified == 2

\* The inputs (hashed_inputs: those the stored hash was computed from;
\* unchanged: the round found them as they were then): whether the alignment excerpt exists, the content of the
\* integration proposal, the incoming note files, all_modified of the round
\* and which of those files no longer exist.
RecheckInputs ==
    {i \in [excerpt : BOOLEAN, proposal : {1, 2}, notes : SUBSET (1..MaxNotes),
            all_modified : SUBSET (1..MaxModified), deleted : SUBSET (1..MaxModified)] :
        i.deleted \subseteq i.all_modified}

\* The bytes of the files listed in q, one after the other.
RECURSIVE ReadAll(_, _)
ReadAll(q, tag) == IF q = <<>> THEN <<>> ELSE <<<<tag, Head(q)>>>> \o ReadAll(Tail(q), tag)

\* The note files in the order the directory lists them.
note_paths_unsorted(notes) == Orders(notes)
\* sorted(notes_dir.glob(f"from-*-to-{sec_num}.md"))
note_paths(notes) == {Sorted(notes)}

\* hasher.update(...) over the hash sources that exist, the note files and
\* the modified files that exist; hexdigest().
inputs_hash(i, notes_order) ==
    Sha256((IF i.excerpt THEN <<<<"excerpt", 1>>>> ELSE <<>>)
           \o <<<<"proposal", i.proposal>>>>
           \o ReadAll(notes_order, "note")
           \o ReadAll(Sorted(i.all_modified \ i.deleted), "code"))

\* No section-<n>.hash file.
NoHash == <<>>

\* What _run_alignment_check_with_retries returns.
RecheckOutcomes == {"ALIGNMENT_CHANGED_PENDING", "timed_out", "aligned", "problems"}

InitRecheck ==
    /\ InCoordination("co_plan", 0) /\ PlanIdle /\ BatchIdle /\ FixIdle
    /\ call_args \in RecheckInputs
    /\ \E res \in {"aligned", "problems"} :
         call_ret = [pc |-> "recheck", round |-> 1, inputs |-> call_args,
                     stored |-> NoHash, result |-> res, before |-> res,
                     judged |-> FALSE, hash_equal |-> FALSE,
                     hashed_inputs |-> call_args, unchanged |-> FALSE,
                     no_verdict |-> FALSE]

\* The body of `for sec_num in sorted(affected_sections)` for the section.
RecheckSection ==
    /\ call_ret.pc = "recheck"
    /\ \E order \in note_paths(call_ret.inputs.notes) :
       LET current_hash == inputs_hash(call_ret.inputs, order) IN
       IF call_ret.stored # NoHash /\ call_ret.stored = current_hash
       THEN call_ret' = [call_ret EXCEPT !.pc = "next", !.hash_equal = TRUE]
       ELSE LET written == [call_ret EXCEPT !.stored = current_hash,
                                            !.hashed_inputs = call_ret.inputs] IN
            \E ctrl \in {"alignment_changed", "none"}, out \in RecheckOutcomes :
               call_ret' =
                  IF ctrl = "alignment_changed" THEN [written EXCEPT !.pc = "ret_false"]
                  ELSE IF out = "ALIGNMENT_CHANGED_PENDING"
                  THEN [written EXCEPT !.pc = "ret_false"]
                  ELSE [written EXCEPT !.pc = "next", !.judged = TRUE, !.result = out]
    /\ CallFrame

\* The round ends and the next one comes to its re-check pass: the section
\* is affected again, its inputs rewritten or not.
RecheckNextRound ==
    /\ call_ret.pc = "next" /\ call_ret.round < MaxRecheckRounds
    /\ \E new \in RecheckInputs :
         call_ret' = [call_ret EXCEPT !.pc = "recheck", !.round = @ + 1,
                                      !.inputs = new, !.before = call_ret.result,
                                      !.judged = FALSE, !.hash_equal = FALSE,
                                      !.unchanged = (new = call_ret.hashed_inputs),
                                      !.no_verdict = (call_ret.judged
                                                      /\ call_ret.result = "timed_out")]
    /\ CallFrame

NextRecheck == RecheckSection \/ RecheckNextRound

SpecRecheck == InitRecheck /\ [][NextRecheck]_vars

(***************************************************************************)
(* run_section, proposal loop, step 2a: the choice of the proposer model,  *)
(* its model-choice signal and the dispatch.  write_model_choice_signal    *)
(* (dispatch.py) writes tool-choice-<section>-<step>.json with the model,  *)
(* the reason and the model escalated from.                                *)
(***************************************************************************)
\* Iterations of the proposal loop and incoming note files of the section.
MaxProposals == 5
MaxNoteFiles == 4

\* `if proposal_attempt > 3 or notes_count > 3`
escalated_after_three(proposal_attempt, notes_count) ==
    proposal_attempt > 3 \/ notes_count > 3
\* `if proposal_attempt >= 3 or notes_count >= 3`
escalated(proposal_attempt, notes_count) ==
    proposal_attempt >= 3 \/ notes_count >= 3

\* proposal_model and escalated_from ("None": not escalated).
proposal_model(proposal_attempt, notes_count) ==
    IF escalated(proposal_attempt, notes_count)
    THEN [model |-> "gpt-5.3-codex-xhigh", escalated_from |-> "gpt-5.3-codex-high"]
    ELSE [model |-> "gpt-5.3-codex-high", escalated_from |-> "None"]

\* The content of the signal file.
write_model_choice_signal(section, step, model, reason, escalated_from) ==
    [section |-> section, step |-> step, model |-> model, reason |-> reason,
     escalated_from |-> escalated_from]

InitProposer ==
    /\ InCoordination("co_plan", 0) /\ PlanIdle /\ BatchIdle /\ FixIdle
    /\ call_args \in Sections
    /\ call_ret = [proposal_attempt |-> 0, notes_count |-> 0, dispatched |-> "none",
                   signal |-> write_model_choice_signal(0, "none", "none", "none", "None")]

\* One pass of `while True` from `proposal_attempt += 1` to the proposer
\* dispatch, which starts the agent unless the flag is pending.
ProposerDispatch ==
    /\ call_ret.proposal_attempt < MaxProposals
    /\ \E notes_count \in 0..MaxNoteFiles, pending \in BOOLEAN :
         LET proposal_attempt == call_ret.proposal_attempt + 1
             choice == proposal_model(proposal_attempt, notes_count)
             reason == IF choice.escalated_from # "None"
                       THEN "attempt, notes" ELSE "first attempt, default model"
         IN call_ret' =
              [proposal_attempt |-> proposal_attempt, notes_count |-> notes_count,
               signal |-> write_model_choice_signal(call_args, "integration-proposal",
                                                    choice.model, reason,
                                                    choice.escalated_from),
               dispatched |-> IF pending THEN "none" ELSE choice.model]
    /\ CallFrame

SpecProposer == InitProposer /\ [][ProposerDispatch]_vars

(***************************************************************************)
(* _extract_problems (alignment.py).  A judge output is a text and the     *)
(* JSON verdict _parse_alignment_verdict finds in it ("none": no verdict). *)
(* A text is a sequence of pieces: the words the function looks for, "MIS" *)
(* (so that MISALIGNED contains ALIGNED), other text "x", a blank "sp" and *)
(* a line break "nl".                                                      *)
(***************************************************************************)
\* Pieces of a judge output.
MaxPieces == 4
Pieces == {"ALIGNED", "MIS", "PROBLEMS:", "UNDERSPECIFIED", "x", "sp", "nl"}
Whitespace == {"sp", "nl"}
JudgeTexts == SeqsUpTo(Pieces, MaxPieces)
Verdicts == {"none", "aligned", "problems_list", "no_details"}

\* str.strip()
RECURSIVE lstrip(_)
lstrip(s) == IF s # <<>> /\ Head(s) \in Whitespace THEN lstrip(Tail(s)) ELSE s
RECURSIVE rstrip(_)
rstrip(s) == IF s # <<>> /\ s[Len(s)] \in Whitespace
             THEN rstrip(SubSeq(s, 1, Len(s) - 1)) ELSE s
strip(s) == rstrip(lstrip(s))

\* str.split("\n")
RECURSIVE split_lines(_, _)
split_lines(s, line) ==
    IF s = <<>> THEN <<line>>
    ELSE IF Head(s) = "nl" THEN <<line>> \o split_lines(Tail(s), <<>>)
    ELSE split_lines(Tail(s), Append(line, Head(s)))

\* The first line that is not blank, stripped ("" when there is none).
RECURSIVE first_line(_)
first_line(lines) ==
    IF lines = <<>> THEN <<>>
    ELSE IF strip(Head(lines)) # <<>> THEN strip(Head(lines))
    ELSE first_line(Tail(lines))

\* `marker in result`
contains(result, marker) == \E i \in 1..Len(result) : result[i] = marker
\* result.find(marker), counted from 1; 0 for -1.
find(result, marker) ==
    IF contains(result, marker)
    THEN CHOOSE i \in 1..Len(result) :
            result[i] = marker /\ \A j \in 1..(i - 1) : result[j] # marker
    ELSE 0

\* `"ALIGNED" in first_line`
is_aligned_line_substring(line) == contains(line, "ALIGNED")
\* `first_line == "ALIGNED"`
is_aligned_line(line) == line = <<"ALIGNED">>

\* The return value: None, or the problems text.
None == [none |-> TRUE, text |-> <<>>]
Problems(text) == [none |-> FALSE, text |-> text]

extract_problems(out) ==
    CASE out.verdict = "aligned" -> None
      [] out.verdict = "problems_list" -> Problems(<<"x">>)
      [] out.verdict = "no_details" -> Problems(<<"x", "sp", "x">>)
      [] OTHER ->
           IF /\ is_aligned_line(first_line(split_lines(out.text, <<>>)))
              /\ ~contains(out.text, "PROBLEMS:")
              /\ ~contains(out.text, "UNDERSPECIFIED")
           THEN None
           ELSE LET idx == find(out.text, "PROBLEMS:") IN
                IF idx # 0
                THEN Problems(strip(SubSeq(out.text, idx + 1, Len(out.text))))
                ELSE Problems(strip(out.text))

InitExtract ==
    /\ InCoordination("co_plan", 0) /\ PlanIdle /\ BatchIdle /\ FixIdle
    /\ call_args \in [verdict : Verdicts, text : JudgeTexts]
    /\ call_ret = <<>>

ExtractProblems ==
    /\ call_ret = <<>>
    /\ call_ret' = extract_problems(call_args)
    /\ CallFrame

SpecExtract == InitExtract /\ [][ExtractProblems]_vars

(***************************************************************************)
(* Properties of the scheduler.                                            *)
(***************************************************************************)

\* C1: `complete` is sent only when every entry of section_results is
\* aligned; in particular not when a section's latest result is
\* aligned=False with no problems text.
C1_CompleteOnlyWhenAllAligned ==
    Complete \in sent => \A s \in Sections : results[s].present => results[s].aligned

\* C2: `complete` is never sent while a consequence note that targets an
\* aligned section is unacknowledged.
C2_NoCompleteWithUnackedNote ==
    Complete \in sent =>
        \A t \in unacked : ~(results[t].present /\ results[t].aligned)

\* C3: once alignment_changed has been consumed in Phase 2, `complete` is
\* not sent before Phase 1 has been restarted, and never while the
\* alignment-changed-pending flag is set.
C3_NoCompleteAfterAlignmentChanged ==
    Complete \in sent => (~acPhase2 /\ ~flag)

\* C4: after an abort message has been consumed, no further agent is
\* dispatched.
C4_NoDispatchAfterAbort == ~lateSpawn

\* C5: an abort consumed while a section is being processed is reported as
\* fail:<section>:aborted; the bare fail:aborted is sent only when no
\* section is active.
C5_AbortNamesActiveSection ==
    abortSeen =>
        /\ abortSec # NoSection => FailAborted(abortSec) \in sent
        /\ FailAborted(NoSection) \in sent => abortSec = NoSection

\* C6: for every alignment_changed message a handler has consumed, the
\* excerpt files that existed then are deleted and the
\* alignment-changed-pending flag is set before the next agent dispatch
\* starts.
C6_InvalidatedBeforeNextDispatch == ~staleSpawn

\* What C7 says of a requeue step in Phase 1: the flag is cleared, the
\* completed set is emptied into the queue, the interrupted section is at
\* the front.
RequeueDone ==
    requeued =>
        /\ pc = "p1_top" /\ ~flag /\ completed = {}
        /\ needProcess \subseteq Range(queue)
        /\ intr # NoSection => (queue # <<>> /\ Head(queue) = intr)

\* C7 (as amended): in Phase 1, on alignment_changed the flag is cleared,
\* the completed sections go back to the queue, the interrupted section
\* goes to its front, and each of them is processed again by the Phase 1
\* loop (re-explored when it has no related files, run through the section
\* engine otherwise) before Phase 2 begins.
C7_RequeuedProcessedAgain ==
    RequeueDone /\ (InPhase2 => needProcess = {})

\* A requeue that put a completed section back and the interrupted section
\* at the front.
C7_Witness ==
    requeued /\ intr # NoSection /\ Cardinality(needProcess) = 2

\* C7 as stated: each requeued section is run through the section engine
\* again before Phase 2 begins.
C7_RequeuedRunThroughEngine ==
    RequeueDone /\ (InPhase2 => needEngine = {})

\* C8: the batches partition the groups placed so far, two groups of one
\* batch have disjoint file sets, and a group with an empty file set is
\* alone in its batch.
C8_BatchesPartitionDisjoint ==
    LET fs(g) == group_file_sets[g + 1]
        B == 1..Len(exec_batches)
        placed == 0..(gidx - 1)
    IN
    /\ \A g \in placed :
          Cardinality({i \in B : g \in Range(exec_batches[i])}) = 1
    /\ \A i \in B :
          /\ Range(exec_batches[i]) \subseteq placed
          /\ Cardinality(Range(exec_batches[i])) = Len(exec_batches[i])
          /\ \A g, h \in Range(exec_batches[i]) : g # h => fs(g) \cap fs(h) = {}
          /\ \A g \in Range(exec_batches[i]) :
                fs(g) = {} => Len(exec_batches[i]) = 1

\* All of three or more groups are placed, one batch holds several groups
\* and one group has no files.
C8_Witness ==
    /\ gidx = Len(group_file_sets) /\ gidx >= 3
    /\ \E i \in 1..Len(exec_batches) : Len(exec_batches[i]) >= 2
    /\ \E g \in 1..gidx : group_file_sets[g] = {}

\* The plan that C9 accepts: an object whose "groups" is an array of
\* objects whose "problems" arrays hold every index of 0..N-1 exactly once
\* and nothing else (true and false count as 1 and 0, as in the code).
PlanIsPartition ==
    /\ plan_result.kind = "groups"
    /\ \A i \in 1..Len(plan_result.groups) :
          /\ plan_result.groups[i].kind = "list"
          /\ \A j \in 1..Len(plan_result.groups[i].problems) :
                /\ IsInt(plan_result.groups[i].problems[j])
                /\ plan_result.groups[i].problems[j][2] \in 0..(NProblems - 1)
    /\ \A k \in 0..(NProblems - 1) :
          Cardinality({<<i, j>> \in (1..MaxPlanGroups) \X (1..MaxGroupLen) :
                          /\ i <= Len(plan_result.groups)
                          /\ j <= Len(plan_result.groups[i].problems)
                          /\ plan_result.groups[i].problems[j][2] = k}) = 1

\* C9: the groups executed in a round partition the problem indices
\* 0..N-1; a plan is accepted only if its index lists hold every index
\* exactly once and nothing else, and every other planner output is
\* replaced by the N singleton groups.
C9_GroupsPartitionProblems ==
    plan_pos = "done" =>
        /\ plan_ret # "raise"
        /\ \A k \in 0..(NProblems - 1) :
              Cardinality({i \in 1..Len(confirmed_groups) :
                              k \in Range(confirmed_groups[i])}) = 1
        /\ plan_ret = "plan" => PlanIsPartition
        /\ ~PlanIsPartition => confirmed_groups = FallbackGroups(NProblems)

\* C10: a Phase 2 pass runs at most MAX_COORDINATION_ROUNDS rounds, whose
\* status messages are numbered 1, 2, ... without gaps; a pass whose round
\* 10 ends with a section unresolved ends without `complete`.
C10_RoundsBounded ==
    /\ round_num <= MAX_COORDINATION_ROUNDS
    /\ roundsSent \in {1..round_num, 1..(round_num - 1)}
    /\ (Complete \in sent /\ round_num = MAX_COORDINATION_ROUNDS) =>
            Misaligned(results) = {}

\* A step that ends a coordinator round with the adaptive-termination logic:
\* run_global_coordination returned False and the flag is not pending.
RoundEnds == pc = "co_ret_false" /\ ~flag /\ pc' \in {"co_round", "co_exit"}

\* C11: at the end of every coordinator round the stall counter goes up by
\* one when the number of unresolved sections did not strictly decrease and
\* to 0 when it did; the escalation file is written and the escalation
\* message for the round sent exactly in the steps that bring the counter
\* to 2, and nowhere else; a fix dispatch uses the escalated model when the
\* file exists and the default model otherwise.
C11_StallCounterAndEscalation ==
    [][/\ RoundEnds =>
            stall_count' = IF Cardinality(Misaligned(results)) < prev_unresolved
                           THEN 0 ELSE stall_count + 1
       /\ (stall_count' # stall_count /\ stall_count' # 0) => RoundEnds
       /\ (RoundEnds /\ stall_count' = 2) =>
            escalation_file' /\ escalation_round' = round_num
       /\ (escalation_file' # escalation_file
             \/ (escalation_round' # escalation_round /\ escalation_round' # 0)) =>
            RoundEnds /\ stall_count' = 2
       /\ (pc = "co_fix" /\ pc' \in {"co_batch", "co_ret_false"}) =>
            fix_model' = IF escalation_file THEN EscalatedFixModel ELSE DefaultFixModel
      ]_vars
\* A fix dispatch of a later round runs with the escalated model after the
\* counter had reached 2 and was reset by progress.
C11_Witness ==
    /\ fix_model = EscalatedFixModel /\ escalation_file
    /\ round_num >= 4 /\ stall_count = 0

\* fail:<section>:coordination_exhausted:<summary>
Exhausted(s) == Msg("coordination_exhausted", s)

\* C12: the coordinator loop stops at the end of the round that brings the
\* stall counter to 3, and not at the end of a round that leaves it below 3
\* or before round MIN_COORDINATION_ROUNDS; when the scheduler leaves the
\* loop it sends coordination_exhausted once for every section whose result
\* is not aligned and for no other, and `complete` is not sent.
C12_StallStopsAndReportsExhausted ==
    [][/\ (RoundEnds /\ stall_count' = 3) => pc' = "co_exit"
       /\ (RoundEnds /\ pc' = "co_exit") =>
            stall_count' = 3 /\ round_num >= MIN_COORDINATION_ROUNDS
       /\ (pc = "co_exit" /\ pc' # "co_exit") =>
            /\ pc' = "done"
            /\ \A s \in Sections : Exhausted(s) \notin sent
            /\ sent' = sent \cup {Exhausted(s) : s \in Misaligned(results)}
            /\ Complete \notin sent'
       /\ (\E s \in Sections : Exhausted(s) \in sent' /\ Exhausted(s) \notin sent) =>
            pc = "co_exit"
      ]_vars
\* The scheduler has stopped after three stalled rounds and reported a section.
C12_Witness ==
    /\ pc = "done" /\ stall_count = 3 /\ round_num = 3
    /\ \E s \in Sections : Exhausted(s) \in sent /\ ~results[s].aligned
    /\ Complete \notin sent

\* A step in which dispatch_agent starts an agent subprocess.
SpawnStep == pc \in DispatchPCs /\ CanSpawn /\ ~flag /\ pc' # pc

\* C14: a pause answered by a message that does not start with "resume"
\* ends the section (run_section returns None), and no agent is dispatched
\* for a section whose pause was not answered by a resume.
C14_NoDispatchWithoutResume ==
    [][/\ (pc \in PausePCs /\ unresumed' # unresumed) => pc' = "ret_none"
       /\ (SpawnStep /\ cur # NoSection) => unresumed # cur
      ]_vars

\* The fail:... messages `sent` records.
IsFail(m) == m.k \in {"fail", "fail:aborted", "coordination_exhausted"}

\* C15: when the scheduler has terminated without sending `complete`, it
\* has sent at least one fail message to the parent.
C15_FailBeforeSilentExit ==
    (pc = "done" /\ Complete \notin sent) => \E m \in sent : IsFail(m)

\* C13: a note whose target is aligned is counted as an unaddressed_note
\* problem exactly when the target's acknowledgments do not carry the id
\* the note file names, whatever the order of source and target; the id
\* the coordinator recomputes from the file is that same id.
C13_AckByNoteIdRemovesProblem ==
    call_ret.stage = "done" =>
        /\ (call_ret.problems # {}) <=>
                (call_args.aligned /\ EmbeddedId(call_ret.note) \notin call_ret.acks)
        /\ NoteId(NoteName(call_args), call_ret.note) = EmbeddedId(call_ret.note)

\* C16: when poll_control_messages does not exit on abort, the messages it
\* sends back to the scheduler's own mailbox are the drained messages that
\* are neither abort nor alignment_changed, each once and in their original
\* order, and it returns "alignment_changed" exactly when a drained message
\* was alignment_changed.
C16_PollReplaysNonControl ==
    (call_ret.done /\ ~call_ret.abort) =>
        LET idx == {i \in 1..Len(call_args) : ~IsControl(call_args[i])}
            nth(k) == CHOOSE i \in idx : Cardinality({j \in idx : j < i}) = k - 1
        IN /\ Len(call_ret.replay) = Cardinality(idx)
           /\ \A k \in 1..Len(call_ret.replay) : call_ret.replay[k] = call_args[nth(k)]
           /\ call_ret.ac <=> \E i \in 1..Len(call_args) : call_args[i] = "alignment_changed"
\* Two different messages around an alignment_changed were drained and sent back.
C16_Witness ==
    /\ call_ret.done /\ ~call_ret.abort /\ call_ret.ac
    /\ Len(call_args) = 3 /\ call_args[2] = "alignment_changed"
    /\ Len(call_ret.replay) = 2 /\ call_ret.replay[1] # call_ret.replay[2]

\* C17: while wait_if_paused is in its loop no agent is dispatched and no
\* message is sent back to the mailbox; a received message that is neither
\* abort nor alignment_changed is appended to the buffer; when the loop
\* ends the pipeline-state is running and the buffered messages are put
\* behind the pending ones, each once and in the order of their receipt.
C17_BufferedReplayedOnResume ==
    [][wait = "paused" =>
        /\ ~SpawnStep
        /\ pc' # pc => pc' = "done" /\ mailbox # <<>> /\ Head(mailbox) = "abort"
        /\ wait' = "paused" =>
              /\ mailbox' # mailbox => mailbox # <<>> /\ mailbox' = Tail(mailbox)
              /\ buffered' = IF mailbox' # mailbox /\ ~IsControl(Head(mailbox))
                              THEN Append(buffered, Head(mailbox)) ELSE buffered
        /\ wait' = "ready" =>
              pstate = "running" /\ mailbox' = mailbox \o buffered
      ]_vars
\* Two different messages and an alignment_changed were received while
\* paused, and the two were sent back in their order after the resume.
C17_Witness ==
    /\ call_args = <<"text", "resume:payload", "alignment_changed">>
    /\ wait = "ready" /\ flag /\ pstate = "running"
    /\ mailbox = <<"text", "resume:payload">>

\* The pipeline-state went from running to paused (from paused to running)
\* this many times since the batch started.
PauseTransitions == (MaxToggles - togglesLeft + 1) \div 2
ResumeTransitions == (MaxToggles - togglesLeft) \div 2

\* C18: the scheduler sends status:paused at most once for each transition
\* of the pipeline-state from running to paused, and status:resumed at most
\* once for each return to running, also when the fix dispatches of one
\* batch run in parallel.
C18_StatusOncePerTransition ==
    /\ status_sent.paused <= PauseTransitions
    /\ status_sent.resumed <= ResumeTransitions

\* C19: no thread starts an agent subprocess while the
\* alignment-changed-pending flag is set.
C19_NoSpawnWhileFlagSet ==
    [][\A t \in FixThreads : (tpc[t] = "spawn" /\ tpc'[t] = "agent") => ~flag]_vars

\* The validation has returned for a call of this shape.
Validated == DOMAIN call_ret = {"done", "changed"} /\ call_ret.done

\* C20 (as stated): the modified-file list returned by run_section is exactly
\* the reported files of the pre-hash set whose content hash changed together
\* with the reported files outside the pre-hash set that exist on disk; no
\* unreported file is in the list.
C20_OnlyReportedFilesListed ==
    Validated =>
        /\ call_ret.changed =
              {rp \in call_args.reported \cap call_args.related_files :
                  call_args.post[rp] # call_args.pre[rp]}
              \cup {rp \in call_args.reported \ call_args.related_files :
                      call_args.post[rp] # Missing}
        /\ call_ret.changed \subseteq call_args.reported

\* C20 (amended): the modified-file list returned by run_section is exactly
\* the files of the pre-hash set (the section's related files), reported or
\* not, whose content changed, together with the reported files outside the
\* pre-hash set that exist on disk.
C20_ChangedRelatedOrReportedExisting ==
    Validated =>
        call_ret.changed =
            {rp \in call_args.related_files :
                call_args.post[rp] # call_args.pre[rp]}
            \cup {rp \in call_args.reported \ call_args.related_files :
                    call_args.post[rp] # Missing}

\* A related file that the agent did not report has changed and is listed,
\* next to a reported file that did not change and is left out.
C20_Witness ==
    /\ Validated
    /\ \E rp \in call_args.related_files \ call_args.reported :
          call_args.post[rp] # call_args.pre[rp] /\ rp \in call_ret.changed
    /\ \E rp \in call_args.reported \cap call_args.related_files :
          call_args.post[rp] = call_args.pre[rp] /\ rp \notin call_ret.changed

\* The report has been read.
ReportRead == DOMAIN call_ret = {"done", "modified", "collected"} /\ call_ret.done

\* The lines of a report that resolve into the codespace.
InsideLines(lines) ==
    SelectSeq(lines, LAMBDA pp : IsUnder(full_path(pp), codespace_resolved))

\* C21: every path returned from a report of modified files is relative to
\* the codespace and resolves to a path under the codespace root; a line
\* that resolves outside the codespace is skipped, the other lines are kept.
C21_ReportedPathsUnderCodespace ==
    ReportRead =>
        /\ \A i \in 1..Len(call_ret.modified) :
              /\ call_ret.modified[i] # "skip"
              /\ IsUnder(resolve(codespace_resolved, call_ret.modified[i]),
                         codespace_resolved)
        /\ Len(call_ret.modified) = Len(InsideLines(call_args))
        /\ \A i \in 1..Len(call_ret.modified) :
              codespace_resolved \o call_ret.modified[i]
                  = full_path(InsideLines(call_args)[i])
        /\ call_ret.collected = Range(call_ret.modified)

\* A report with a line that escapes through `..` or the link, before a
\* line inside the codespace: the first is skipped, the second returned.
C21_Witness ==
    /\ ReportRead
    /\ Len(call_args) = 2
    /\ ~call_args[1].is_absolute /\ ".." \in Range(call_args[1].parts)
    /\ ~IsUnder(full_path(call_args[1]), codespace_resolved)
    /\ call_ret.modified = <<<<"a">>>>

\* C23: every SectionResult stored in section_results with aligned=true has
\* problems = null, also the results recorded for sections completed as
\* greenfield after re-exploration.
C23_AlignedHasNoProblems ==
    \A s \in Sections :
        (results[s].present /\ results[s].aligned) => results[s].problems = "null"

\* The signal file has been read.
SignalRead == DOMAIN call_ret = {"done", "sig"}

\* The signal name the scheduler uses for a state of the enumeration.
SignalName(state) == IF state = "underspecified" THEN "underspec" ELSE state

\* C24: reading a signal file with one of the six recognized states yields
\* that state and the file's detail with the enrichment fields appended; a
\* malformed file yields no signal and no error.
C24_SignalRoundTrip ==
    SignalRead =>
        /\ call_ret.sig.raised = "no"
        /\ (call_args.kind = "object" /\ call_args.state \in SignalStates) =>
              /\ call_ret.sig.signal = SignalName(call_args.state)
              /\ call_ret.sig.detail = Enriched(call_args)
        /\ call_args.kind \in {"not_json", "not_object"} =>
              call_ret.sig.signal = "None"

\* _run_alignment_check_with_retries is running or has returned.
InAlign == DOMAIN call_ret = {"attempt", "dispatches", "ret", "result"}
\* The iterations it has gone through, and those with this judge output.
Iterated == 1..call_ret.attempt
IteratedWith(out) == {i \in Iterated : call_args[i].out = out}
\* No control message was found by a poll of the call.
NoControl == \A i \in Iterated : call_args[i].ctrl = "none"
AlignReturned == call_ret.ret \notin {"running", "exit"}

C26_InvalidFrameKeepsTimeoutBudget ==
    (InAlign /\ NoControl /\ call_ret.ret = "None") =>
        Cardinality(IteratedWith("timeout")) = 3

\* C30: a section without related files is recorded as completed and
\* aligned without running the section engine only if the re-explorer
\* classified it as greenfield.
C30_AlignedWithoutFilesOnlyIfGreenfield ==
    [][(pc = "reexplore" /\ cur # NoSection /\ cur \in completed' \ completed
            /\ results'[cur].aligned)
          => SectionMode(call_args) = "greenfield"]_vars

\* The messages of a run in which every agent succeeds, every judge says
\* ALIGNED and nothing interrupts, with n modified files.
HappyMessages(n) ==
    <<Msg("summary:setup", 1), Msg("summary:proposal", 1),
      Msg("summary:proposal-align:ALIGNED", 1), Msg("summary:impl", 1),
      Msg("summary:impl-align:ALIGNED", 1), Msg("done", n), Complete>>
IsPrefix(s, q) == Len(s) <= Len(q) /\ SubSeq(q, 1, Len(s)) = s
\* The run so far: no existing excerpts, every agent succeeded, every judge
\* verdict was ALIGNED, no signal and no control message.
HappyRun == ~call_args.excerpts /\ call_ret.clean

C27_JudgeTimeoutRetriesBounded ==
    [][call_ret'.judge_dispatches > call_ret.judge_dispatches
          => call_ret.judge_timeouts < 3]_vars

\* The PROBLEMS messages of proposal alignment sent by a step.
NewProposalProblems ==
    {i \in (Len(call_ret.sent) + 1)..Len(call_ret'.sent) :
        call_ret'.sent[i].k = "summary:proposal-align:PROBLEMS-attempt"}

\* C28: within one run_section the implementer is dispatched only after a
\* proposal-alignment check was judged aligned; post-completion runs only
\* after an implementation-alignment check was judged aligned; a PROBLEMS
\* verdict at proposal alignment goes back to the proposer, whose next
\* dispatch is one dispatch and receives those problems, and the attempt
\* number of the PROBLEMS message is the number of proposer dispatches so far.
C28_StagesInOrder ==
    [][/\ call_ret'.impl_dispatches > call_ret.impl_dispatches
            => call_ret.proposal_aligned
       /\ call_ret'.pc = "post" => call_ret'.impl_aligned
       /\ \A i \in NewProposalProblems :
            /\ call_ret'.sent[i].s = call_ret'.proposer_dispatches
            /\ call_ret'.pc = "proposal"
            /\ call_ret'.proposal_problems =
                  VerdictProblems(call_ret'.proposer_dispatches)
       /\ (call_ret'.proposer_dispatches > call_ret.proposer_dispatches
              /\ call_ret.proposal_problems.text = "problems")
            => /\ call_ret'.proposer_dispatches = call_ret.proposer_dispatches + 1
               /\ call_ret'.fed = call_ret.proposal_problems]_vars

\* Two PROBLEMS verdicts, each fed to the next proposer dispatch, then the
\* proposal is aligned and the implementer has been dispatched.
C28_Witness ==
    /\ Msg("summary:proposal-align:PROBLEMS-attempt", 2) \in Range(call_ret.sent)
    /\ call_ret.proposer_dispatches = 3
    /\ call_ret.fed = VerdictProblems(2)
    /\ call_ret.proposal_aligned /\ call_ret.impl_dispatches = 1

\* C29: at proposal alignment a signal UNDERSPECIFIED, NEED_DECISION or
\* DEPENDENCY makes the section engine send a pause message and wait for the
\* parent; it never goes on to implementation on such an iteration.
C29_JudgeSignalsPause ==
    [][(call_ret.pc = "proposal_align"
          /\ call_ret'.judge_dispatches > call_ret.judge_dispatches
          /\ call_ret'.judge_timeouts = 0
          /\ call_ret'.signal \in {"underspec", "need_decision", "dependency"})
         => /\ call_ret'.pc # "microstrategy"
            /\ Msg("pause", 1) \in
                  Range(SubSeq(call_ret'.sent, Len(call_ret.sent) + 1,
                               Len(call_ret'.sent)))]_vars

\* C31: every `start:section:NN` in the lifecycle log is followed by the
\* matching `end:section:NN` before the next `start:section:` event and
\* before the scheduler leaves Phase 1 (by exit or into Phase 2), also when
\* the section was interrupted by alignment_changed and requeued.
C31_StartFollowedByEnd ==
    "lifecycle" \in DOMAIN call_ret =>
       LET log == call_ret.lifecycle IN
       \A i \in 1..Len(log) :
          log[i].k = "start" =>
             /\ i < Len(log) => log[i + 1] = Msg("end", log[i].s)
             /\ i = Len(log) => call_ret.pc \notin {"exit", "phase2"}

\* C37: while Phase 1 runs the queue holds no section number twice and every
\* loaded section is in the queue, in `completed`, or is the section being
\* processed; hence Phase 2 only runs with every loaded section in
\* `completed`.
C37_WorkQueueInvariant ==
    /\ pc \notin Phase2PCs \cup {"done"} =>
         /\ \A i, j \in 1..Len(queue) : i # j => queue[i] # queue[j]
         /\ \A s \in Sections : s \in Range(queue) \/ s \in completed \/ s = cur
    /\ InPhase2 => completed = Sections

\* The interrupted section was put back in front of the requeued ones.
C37_Witness ==
    /\ pc = "p1_top" /\ requeued /\ intr # NoSection
    /\ completed = {} /\ Len(queue) = 2 /\ Head(queue) = 2

\* The coordinator round of SpecPool is under way.
InPool == "planner" \in DOMAIN call_ret
\* The batch a group was put in.
BatchOf(g) == CHOOSE j \in 1..Len(exec_batches) : g \in Range(exec_batches[j])

\* C32: within one coordinator round the planner has returned before any
\* bridge or fix agent runs; the batches run one after another (every fix
\* agent that runs or waits belongs to the current batch and every fix
\* agent of an earlier batch has returned); the alignment judge of the
\* re-check pass runs only when every fix agent of every batch has
\* returned; and the next round's problem collection starts only after the
\* re-check pass has ended.
C32_RoundStepsInOrder ==
    InPool =>
       /\ (call_ret.bridge = "running" \/ call_ret.started # {}) =>
             call_ret.planner = "returned"
       /\ \A g \in call_ret.running \cup call_ret.queued : BatchOf(g) = call_ret.k
       /\ \A g \in call_ret.started :
             /\ BatchOf(g) <= call_ret.k
             /\ BatchOf(g) < call_ret.k => g \in call_ret.returned
       /\ (call_ret.judge = "running" \/ call_ret.pc = "recheck") =>
             /\ call_ret.running = {} /\ call_ret.queued = {}
             /\ call_ret.started \subseteq call_ret.returned
             /\ call_ret.k = Len(exec_batches)
       /\ call_ret.pc = "collect" =>
             /\ call_ret.rechecked /\ call_ret.judge = "none"
             /\ call_ret.running = {}

\* The judge of the re-check pass runs after two batches, one of them
\* parallel, have run their fix agents.
C32_Witness ==
    /\ InPool /\ call_ret.judge = "running"
    /\ Len(exec_batches) >= 2
    /\ \E j \in 1..Len(exec_batches) : Len(exec_batches[j]) >= 2
    /\ Cardinality(call_ret.returned) >= 3

\* C33: at every moment at most 4 fix agents run, all of one batch, any two
\* of them for groups with disjoint file sets; the fix agent of a
\* single-group batch runs alone.
C33_FixAgentsBoundedDisjoint ==
    InPool =>
       /\ Cardinality(call_ret.running) <= 4
       /\ \A g, h \in call_ret.running :
             /\ BatchOf(g) = BatchOf(h)
             /\ g # h => group_file_sets[g + 1] \cap group_file_sets[h + 1] = {}
       /\ \A g \in call_ret.running :
             Len(exec_batches[BatchOf(g)]) = 1 => call_ret.running = {g}

\* Four fix agents of a batch of five groups run and the fifth waits.
C33_Witness ==
    /\ InPool /\ Cardinality(call_ret.running) = 4 /\ call_ret.queued # {}
    /\ Len(exec_batches[call_ret.k]) = 5

\* The re-check of the section in the current round is over.
Rechecked == "hash_equal" \in DOMAIN call_ret /\ call_ret.pc = "next"

\* C34: when the inputs hash computed for an affected section equals the
\* stored one, no alignment judge is dispatched for it in this round and
\* its SectionResult stays as it was; and the hash computed again over
\* unchanged inputs equals the stored digest (so the section is skipped).
C34_UnchangedHashSkipsRecheck ==
    Rechecked =>
       /\ call_ret.hash_equal =>
             ~call_ret.judged /\ call_ret.result = call_ret.before
       /\ call_ret.unchanged => call_ret.hash_equal

\* A second round over unchanged inputs with notes and modified files.
C34_Witness ==
    /\ Rechecked /\ call_ret.round = 2 /\ call_ret.hash_equal
    /\ call_ret.inputs.notes = 1..MaxNotes
    /\ call_ret.inputs.all_modified = 1..MaxModified

\* C39: a section whose re-check in round k ended without a verdict (the
\* judge timed out on every attempt) has the judge dispatched again in
\* round k+1, also when its hashed inputs are unchanged.
C39_NoVerdictIsRechecked ==
    (Rechecked /\ call_ret.no_verdict) => call_ret.judged

\* C35: a proposer dispatch uses the stronger-tier model exactly when the
\* attempt counter of the proposal loop is at least 3 or the section has
\* at least 3 incoming note files, the standard-tier model otherwise; and
\* the model-choice signal of an escalated dispatch names the standard
\* model as the one escalated from.
C35_ProposerEscalation ==
    ("dispatched" \in DOMAIN call_ret /\ call_ret.dispatched # "none") =>
       LET strong == call_ret.proposal_attempt >= 3 \/ call_ret.notes_count >= 3 IN
       /\ call_ret.dispatched = IF strong THEN "gpt-5.3-codex-xhigh"
                                ELSE "gpt-5.3-codex-high"
       /\ call_ret.signal.model = call_ret.dispatched
       /\ strong => call_ret.signal.escalated_from = "gpt-5.3-codex-high"

\* The first proposer dispatch of a section with three incoming notes.
C35_Witness ==
    /\ "dispatched" \in DOMAIN call_ret
    /\ call_ret.dispatched = "gpt-5.3-codex-xhigh"
    /\ call_ret.proposal_attempt = 1 /\ call_ret.notes_count = 3

\* _extract_problems has returned for an output without a JSON verdict.
Extracted ==
    /\ DOMAIN call_ret = {"none", "text"}
    /\ DOMAIN call_args = {"verdict", "text"} /\ call_args.verdict = "none"
\* The text up to the first line break at or after position i.
LineFrom(text, i) ==
    LET ends == {j \in i..Len(text) : text[j] = "nl"} IN
    SubSeq(text, i, IF ends = {} THEN Len(text)
                    ELSE (CHOOSE j \in ends : \A k \in ends : j <= k) - 1)
\* The first line of the text that has more than blanks, without the
\* blanks around it.
FirstNonEmptyLine(text) ==
    LET starts == {i \in 1..Len(text) : text[i] \notin Whitespace} IN
    IF starts = {} THEN <<>>
    ELSE rstrip(LineFrom(text, CHOOSE i \in starts : \A k \in starts : i <= k))

\* C36: on a judge output without a JSON verdict _extract_problems returns
\* None exactly when the first non-empty line is ALIGNED and nothing else
\* and the output contains neither PROBLEMS: nor UNDERSPECIFIED (a first
\* line MISALIGNED is not aligned); when PROBLEMS: occurs, the problems
\* returned are the text after its first occurrence.
C36_AlignedOnlyOnExactFirstLine ==
    Extracted =>
       LET text == call_args.text
           marks == {i \in 1..Len(text) : text[i] = "PROBLEMS:"} IN
       /\ call_ret.none <=>
             /\ FirstNonEmptyLine(text) = <<"ALIGNED">>
             /\ marks = {}
             /\ \A i \in 1..Len(text) : text[i] # "UNDERSPECIFIED"
       /\ marks # {} =>
             LET first == CHOOSE i \in marks : \A k \in marks : i <= k IN
             /\ ~call_ret.none
             /\ call_ret.text = strip(SubSeq(text, first + 1, Len(text)))

\* MISALIGNED on the first non-empty line, PROBLEMS: further down.
C36_Witness ==
    /\ Extracted
    /\ call_args.text = <<"MIS", "ALIGNED", "PROBLEMS:", "x">>
    /\ call_ret = Problems(<<"x">>)

\* C38: the message check between two iterations of a loop of run_section
\* loses no message that is neither abort nor alignment_changed: unless the
\* check ends the run on an abort, every such message pending before it is
\* still in the scheduler's mailbox after it, where a later
\* pause_for_parent can receive it.
C38_LoopCheckKeepsNonControl ==
    [][(/\ pc \in {"rs_prop_top", "rs_impl_top"} /\ pc' # pc
        /\ ~HandlePending(mailbox).abort)
         => \A i \in 1..Len(mailbox) :
               ~IsControl(mailbox[i]) => mailbox[i] \in Range(mailbox')]_vars

\* C40: once coordination/model-escalation.txt is written no step of the
\* scheduler removes it, and every coordinator fix dispatch made while it
\* exists uses the model it names, also after the stall counter went back
\* to zero and after a restart of Phase 1.
C40_EscalationSticky ==
    [][/\ escalation_file => escalation_file'
       /\ (escalation_file /\ pc = "co_fix" /\ fix_model' # fix_model)
             => fix_model' = EscalatedFixModel]_vars

\* A fix dispatch with the escalated model in a round that follows
\* progress: the stall counter is back at zero.
C40_Witness ==
    /\ escalation_file /\ fix_model = EscalatedFixModel
    /\ stall_count = 0 /\ round_num >= 3
====
